---- MODULE Spec2Model ----
(***************************************************************************)
(* A model of the TikTok niche scraper's normaliser and ranker             *)
(* (scraper/video_parser.py) and of the keyword loop of main.py.           *)
(*                                                                         *)
(* Representation of Python values:                                        *)
(*   - a dict is a function whose domain is the set of its keys, so        *)
(*     `k in d` is  k \in DOMAIN d  and  d.get(k, x)  is  Get(d, k, x);     *)
(*   - a value stored in a raw record is a tagged record: IntV(n), StrV(s) *)
(*     (s a sequence of one-character strings), NoneV, DictV(d);           *)
(*   - a call that may raise yields Return(v) or Raise(exception name);    *)
(*   - engagement_rate is held in units of 1/10000 (round(x, 4)) and       *)
(*     performance_score in units of 1/100 (round(x, 2)), as integers.     *)
(***************************************************************************)
EXTENDS Integers, Sequences, FiniteSets, TLC

VARIABLES
    \* ---- one call of the normaliser / ranker functions ----
    p_pc,            \* "input" | "stats" | "trending" | "parsed" | "timestamp"
    raw_video,       \* the raw record handed to the function
    stats_result,    \* outcome of extract_statistics(raw_video)
    trend_args,      \* the thresholds of the last is_trending call
    trend_result,    \* its result
    video_result,    \* outcome of parse_video_data(raw_video, keyword)
    ts_result,       \* outcome of extract_timestamp(raw_video)
    \* ---- main(), browser mode ----
    m_pc,            \* "start" | "batch" | "keyword" | "close" | "limit" | "save" | "done"
                     \* | "aborted" | "raised" | "sample" | "sample_save" | "sample_done"
    cfg,             \* the configuration values main imports
    kw_idx,          \* number of keywords of KEYWORDS already taken
    all_videos,
    successful_keywords,
    failed_keywords,
    discovered,      \* the id of every video appended to all_videos, in order
    exported,        \* the exporters that returned, in order, each with the
                     \* collection it was handed
    sample_videos,   \* all_videos of the NO_BROWSER branch (main.py line 125)
    \* ---- one call of tiktok_api.get_videos_for_tag ----
    a_pc,            \* "call" | "launch" | "context" | "scripts" | "discover" | "parse"
                     \* | "merge" | "parsed" | "no_elements" | "close" | "stop"
                     \* | "returned"
    a_max,           \* max_videos
    a_primary,       \* what parse_video_data returns for the discovered elements
    a_json,          \* what extract_videos_from_json returns for the page content
    a_videos,        \* the local list `videos`
    a_playwright,    \* stealth.playwright: "none" | "started" | "stopped"
    a_browser,       \* stealth.browser: "none" | "open" | "closed"
    a_returned,      \* the list the call returned
    \* ---- the two score computations applied to two statistics ----
    s_pc,            \* "input" | "metrics" | "score"
    s_stats,         \* the pair of statistics (the four counts of each)
    s_scores,        \* the pair of performance scores computed
    \* ---- the text helpers applied to one description ----
    t_pc,            \* "input" | "hashtags" | "hashtags_from_text"
    t_text,          \* the description, a sequence of characters
    t_hashtags,      \* the list of hashtags returned
    \* ---- ContentDiscovery.execute_best_approach: one call ----
    d_pc,            \* "start" | "loop" | "returned"
    d_max_videos,    \* the argument max_videos
    d_found,         \* approach -> the number of elements it returns
    approaches,      \* the list of approaches, shuffled
    d_i,             \* approaches tried so far
    results,         \* the best results so far
    best_approach_name,
    \* ---- utils.scheduler.run_scraper: calls by one or two callers ----
    running_instances,   \* the module's counter
    r_callers,       \* the threads that call run_scraper
    r_pc,            \* caller -> its position in run_scraper
    r_reg,           \* caller -> the value it loaded for `+= 1` / `-= 1`
    r_call,          \* caller -> what its current call has done
    r_runs,          \* caller -> calls begun
    r_history,       \* the outcomes of the finished calls, in order
    \* ---- utils.scheduler.setup_schedule and run_scheduler ----
    j_pc,            \* "start" | "setup" | "scheduled" | "looping" | "exited"
    j_config,        \* the scheduler settings of config.py
    jobs             \* the jobs registered with the schedule module

p_vars == <<p_pc, raw_video, stats_result, trend_args, trend_result, video_result,
            ts_result>>
m_vars == <<m_pc, cfg, kw_idx, all_videos, successful_keywords, failed_keywords,
            discovered, exported, sample_videos>>
a_vars == <<a_pc, a_max, a_primary, a_json, a_videos, a_playwright, a_browser, a_returned>>
s_vars == <<s_pc, s_stats, s_scores>>
t_vars == <<t_pc, t_text, t_hashtags>>
d_vars == <<d_pc, d_max_videos, d_found, approaches, d_i, results, best_approach_name>>
r_vars == <<running_instances, r_callers, r_pc, r_reg, r_call, r_runs, r_history>>
j_vars == <<j_pc, j_config, jobs>>
vars == <<p_vars, m_vars, a_vars, s_vars, t_vars, d_vars, r_vars, j_vars>>

-----------------------------------------------------------------------------
(* Python values *)

EmptyDict == [k \in {} |-> 0]
Get(d, k, dflt) == IF k \in DOMAIN d THEN d[k] ELSE dflt

IntV(n) == [t |-> "int", n |-> n]
StrV(s) == [t |-> "str", s |-> s]
\* An int beyond the range of the model's integers: n * times.
ScaledIntV(n, times) == [t |-> "int", n |-> n, times |-> times]
NoneV == [t |-> "none"]
DictV(d) == [t |-> "dict", d |-> d]

Return(v) == [raised |-> FALSE, value |-> v]
Raise(e) == [raised |-> TRUE, exc |-> e]

Digits == {"0", "1", "2", "3", "4", "5", "6", "7", "8", "9"}
DigitValue(c) ==
    CASE c = "0" -> 0 [] c = "1" -> 1 [] c = "2" -> 2 [] c = "3" -> 3
      [] c = "4" -> 4 [] c = "5" -> 5 [] c = "6" -> 6 [] c = "7" -> 7
      [] c = "8" -> 8 [] c = "9" -> 9

RECURSIVE DecimalValue(_)
DecimalValue(s) ==
    IF s = <<>> THEN 0
    ELSE 10 * DecimalValue(SubSeq(s, 1, Len(s) - 1)) + DigitValue(s[Len(s)])

RECURSIVE Pow10(_)
Pow10(n) == IF n = 0 THEN 1 ELSE 10 * Pow10(n - 1)

AllDigits(s) == s # <<>> /\ \A i \in 1..Len(s) : s[i] \in Digits

\* A text is a sequence of characters of the first 256 code points.
\* str.strip() drops the characters str.isspace() accepts at both ends:
\* tab, line feed, vertical tab, form feed, carriage return, the four
\* separators U+001C to U+001F, the space, U+0085 and U+00A0.
Whitespace ==
    {"\t", "\n", "", "\f", "\r", "", "", "", "", " ", "", " "}

\* int() drops fewer: the separators U+001C to U+001F stay.
IntWhitespace ==
    {"\t", "\n", "", "\f", "\r", " ", "", " "}

\* s.strip(chars): s from its first to its last character outside chars.
KeptPositions(s, chars) == {i \in 1..Len(s) : s[i] \notin chars}
Least(S) == CHOOSE i \in S : \A j \in S : i <= j
Greatest(S) == CHOOSE i \in S : \A j \in S : i >= j
StripChars(s, chars) ==
    IF KeptPositions(s, chars) = {} THEN <<>>
    ELSE SubSeq(s, Least(KeptPositions(s, chars)), Greatest(KeptPositions(s, chars)))

\* s.strip()
Strip(s) == StripChars(s, Whitespace)

\* Digits with single underscores between them, as int() accepts.
IsDigitGroups(s) ==
    /\ s # <<>>
    /\ s[1] \in Digits
    /\ s[Len(s)] \in Digits
    /\ \A i \in 1..Len(s) : s[i] \in Digits \cup {"_"}
    /\ \A i \in 1..(Len(s) - 1) : ~(s[i] = "_" /\ s[i + 1] = "_")

WithoutUnderscores(s) == SelectSeq(s, LAMBDA c : c # "_")

\* int() of a text without whitespace at its ends
IntOfText(s) ==
    IF IsDigitGroups(s) THEN Return(DecimalValue(WithoutUnderscores(s)))
    ELSE IF Len(s) > 1 /\ s[1] \in {"-", "+"} /\ IsDigitGroups(Tail(s))
         THEN Return((IF s[1] = "-" THEN -1 ELSE 1)
                     * DecimalValue(WithoutUnderscores(Tail(s))))
         ELSE Raise("ValueError")

\* The number a raw int holds: n itself, or the record of n and times
\* when the product is beyond the model's integers.
IntOf(v) == IF "times" \in DOMAIN v THEN ScaledIntV(v.n, v.times) ELSE v.n

\* int(x): an int is itself; a string is stripped of whitespace and must
\* then be an optional sign and digits, single underscores allowed between
\* digits (ValueError otherwise); None and dicts give TypeError.
int(v) ==
    CASE v.t = "int" -> Return(IntOf(v))
      [] v.t = "str" -> IntOfText(StripChars(v.s, IntWhitespace))
      [] OTHER -> Raise("TypeError")

Max(a, b) == IF a >= b THEN a ELSE b

-----------------------------------------------------------------------------
(* Python floats: IEEE 754 binary64, round to nearest, ties to even *)

\* A natural number beyond the range of the model's integers is a sequence
\* of bits, most significant first, without leading zeros (<<>> is 0).
HasOne(b) == \E i \in 1..Len(b) : b[i] = 1
FirstOne(b) == CHOOSE i \in 1..Len(b) : b[i] = 1 /\ \A j \in 1..(i - 1) : b[j] = 0
LastOne(b) == CHOOSE i \in 1..Len(b) : b[i] = 1 /\ \A j \in (i + 1)..Len(b) : b[j] = 0

TrimBits(b) == IF HasOne(b) THEN SubSeq(b, FirstOne(b), Len(b)) ELSE <<>>

PowersOf2 ==
    <<1, 2, 4, 8, 16, 32, 64, 128, 256, 512, 1024, 2048, 4096, 8192, 16384, 32768,
      65536, 131072, 262144, 524288, 1048576, 2097152, 4194304, 8388608, 16777216,
      33554432, 67108864, 134217728, 268435456, 536870912, 1073741824>>

Pow2(n) == PowersOf2[n + 1]

BitLength(n) == Cardinality({k \in 0..30 : Pow2(k) <= n})
BitsOfWidth(n, w) == [i \in 1..w |-> (n \div Pow2(w - i)) % 2]
BitsOf(n) == BitsOfWidth(n, BitLength(n))

RECURSIVE NatOf(_)
NatOf(b) == IF b = <<>> THEN 0 ELSE 2 * NatOf(SubSeq(b, 1, Len(b) - 1)) + b[Len(b)]

Zeros(n) == [i \in 1..n |-> 0]
PadTo(b, n) == Zeros(n - Len(b)) \o b

\* a + b from bit i down with the carry of the bits below, 25 bits at a
\* time, for a and b of one length: v is the sum of the 25 bits and the
\* carry, w their number.
RECURSIVE AddFrom(_, _, _, _)
RECURSIVE AddChunk(_, _, _, _, _)
AddFrom(a, b, i, carry) ==
    IF i = 0 THEN BitsOf(carry)
    ELSE AddChunk(a, b, Max(i - 25, 0),
                  NatOf(SubSeq(a, Max(i - 25, 0) + 1, i))
                  + NatOf(SubSeq(b, Max(i - 25, 0) + 1, i)) + carry,
                  i - Max(i - 25, 0))

AddChunk(a, b, j, v, w) ==
    AddFrom(a, b, j, v \div Pow2(w)) \o PadTo(BitsOf(v % Pow2(w)), w)

AddAligned(a, b) == AddFrom(a, b, Len(a), 0)

AddBits(a, b) ==
    TrimBits(AddAligned(PadTo(a, Max(Len(a), Len(b))), PadTo(b, Max(Len(a), Len(b)))))

\* a - b in the same way, for a >= b of one length: v is the difference of
\* the 25 bits less the borrow of the bits below, negative when they borrow.
RECURSIVE SubFrom(_, _, _, _)
RECURSIVE SubChunk(_, _, _, _, _)
SubFrom(a, b, i, borrow) ==
    IF i = 0 THEN <<>>
    ELSE SubChunk(a, b, Max(i - 25, 0),
                  NatOf(SubSeq(a, Max(i - 25, 0) + 1, i))
                  - NatOf(SubSeq(b, Max(i - 25, 0) + 1, i)) - borrow,
                  i - Max(i - 25, 0))

SubChunk(a, b, j, v, w) ==
    SubFrom(a, b, j, IF v < 0 THEN 1 ELSE 0) \o PadTo(BitsOf((v + Pow2(w)) % Pow2(w)), w)

SubAligned(a, b) == SubFrom(a, b, Len(a), 0)

SubBits(a, b) == TrimBits(SubAligned(a, PadTo(b, Len(a))))

\* a < b, for bits without leading zeros.
LessAligned(a, b) ==
    \E i \in 1..Len(a) : a[i] < b[i] /\ \A k \in 1..(i - 1) : a[k] = b[k]

LessBits(a, b) == Len(a) < Len(b) \/ (Len(a) = Len(b) /\ LessAligned(a, b))

\* a * c from bit i down with the carry of the bits below, ten bits at a
\* time, for an int 0 <= c <= 2^20: v is the product of the ten bits plus
\* the carry, w their number.
RECURSIVE MulFrom(_, _, _, _)
RECURSIVE MulChunk(_, _, _, _, _)
MulFrom(a, c, i, carry) ==
    IF i = 0 THEN BitsOf(carry)
    ELSE MulChunk(a, c, Max(i - 10, 0),
                  NatOf(SubSeq(a, Max(i - 10, 0) + 1, i)) * c + carry, i - Max(i - 10, 0))

MulChunk(a, c, j, v, w) ==
    MulFrom(a, c, j, v \div Pow2(w)) \o PadTo(BitsOf(v % Pow2(w)), w)

MulBits(a, c) == TrimBits(MulFrom(a, c, Len(a), 0))

\* A float is (-1)^neg * m * 2^e with m of at most 53 bits; m is odd or the
\* float is zero.  Exponents stay far from the range's ends, so there are
\* neither subnormals nor infinities; the sign of a zero is not kept.
FloatZero == [neg |-> FALSE, m |-> <<>>, e |-> 0]

Canonical(neg, m, e) ==
    IF ~HasOne(m) THEN FloatZero
    ELSE [neg |-> neg, m |-> SubSeq(m, FirstOne(m), LastOne(m)), e |-> e + Len(m) - LastOne(m)]

\* The float nearest to (-1)^neg * m * 2^e: bit 54 and the bits below it
\* decide, an exact tie going to the even mantissa.
RoundedUp(m) ==
    m[54] = 1 /\ (m[53] = 1 \/ \E i \in 55..Len(m) : m[i] = 1)

Nearest(neg, m, e) ==
    IF Len(m) <= 53 THEN Canonical(neg, m, e)
    ELSE Canonical(neg,
                   IF RoundedUp(m) THEN AddBits(SubSeq(m, 1, 53), <<1>>)
                   ELSE SubSeq(m, 1, 53),
                   e + Len(m) - 53)

float_of_int(n) == Canonical(n < 0, BitsOf(IF n < 0 THEN -n ELSE n), 0)

\* The most bits w of a quotient by q < 2^30 that one step can make: the
\* largest w with q * 2^w within the integers.
ChunkWidth(q) ==
    CHOOSE w \in 1..30 :
        /\ Pow2(w) <= 2147483647 \div q
        /\ w < 30 => Pow2(w + 1) > 2147483647 \div q

\* k steps of the long division of r by q, for 0 <= r < q, each making w
\* bits of the quotient: the bits and the remainder left.
WithBits(b, rest) == [bits |-> b \o rest.bits, r |-> rest.r]

RECURSIVE QuotientSteps(_, _, _, _)
QuotientSteps(r, q, w, k) ==
    IF k = 0 THEN [bits |-> <<>>, r |-> r]
    ELSE WithBits(PadTo(BitsOf((r * Pow2(w)) \div q), w),
                  QuotientSteps((r * Pow2(w)) % q, q, w, k - 1))

\* j blocks of ten steps, and one more bit that is 1 when bits remain.
RECURSIVE QuotientBlocks(_, _, _, _)
RECURSIVE AfterBlock(_, _, _, _)
QuotientBlocks(r, q, w, j) ==
    IF j = 0 THEN <<IF r = 0 THEN 0 ELSE 1>>
    ELSE AfterBlock(QuotientSteps(r, q, w, 10), q, w, j)

AfterBlock(block, q, w, j) == block.bits \o QuotientBlocks(block.r, q, w, j - 1)

\* Blocks enough for 90 bits after the point: the quotient of ints below
\* 2^31 then has its 53 bits, the bit that decides and a bit for the rest.
QuotientBlockCount(w) == (89 \div (10 * w)) + 1

QuotientBits(r, q, w) == QuotientBlocks(r, q, w, QuotientBlockCount(w))

\* p / q for ints p and q > 0 (true division, and float(text) for the
\* decimal p / q): the float nearest to the quotient.
DivNat(neg, p, q) ==
    Nearest(neg, TrimBits(BitsOf(p \div q) \o QuotientBits(p % q, q, ChunkWidth(q))),
            -(10 * ChunkWidth(q) * QuotientBlockCount(ChunkWidth(q)) + 1))

float_div(p, q) == DivNat(p < 0, IF p < 0 THEN -p ELSE p, q)

\* x * c for a float x and an int c >= 0
float_mul(x, c) == Nearest(x.neg, MulBits(x.m, c), x.e)

\* The mantissa of x at the exponent e <= x.e
MantissaAt(x, e) == IF x.m = <<>> THEN <<>> ELSE x.m \o Zeros(x.e - e)

AddMantissas(x, a, y, b, e) ==
    IF x.neg = y.neg THEN Nearest(x.neg, AddBits(a, b), e)
    ELSE IF LessBits(a, b) THEN Nearest(y.neg, SubBits(b, a), e)
    ELSE Nearest(x.neg, SubBits(a, b), e)

AddAt(x, y, e) == AddMantissas(x, MantissaAt(x, e), y, MantissaAt(y, e), e)

\* x + y
float_add(x, y) == AddAt(x, y, IF x.e <= y.e THEN x.e ELSE y.e)

\* The integer nearest to m * 2^e for e < 0, an exact tie going to the even
\* one: m is held with at least 1 - e bits.
NearestInt(m, e) ==
    NatOf(SubSeq(m, 1, Len(m) + e))
    + (IF m[Len(m) + e + 1] = 1
          /\ (m[Len(m) + e] = 1 \/ \E i \in (Len(m) + e + 2)..Len(m) : m[i] = 1)
       THEN 1 ELSE 0)

RoundMantissa(m, e) ==
    IF e >= 0 THEN NatOf(m \o Zeros(e))
    ELSE NearestInt(PadTo(m, Max(Len(m), 2 - e)), e)

\* round(x, ndigits) in units of 1 / scale, for scale = 10^ndigits: Python
\* rounds the float's exact value, ties to even.
round(x, scale) ==
    (IF x.neg THEN -1 ELSE 1) * RoundMantissa(MulBits(x.m, scale), x.e)

\* int(x) of a float: the digits after the point are dropped.
int_of_float(x) ==
    (IF x.neg THEN -1 ELSE 1)
    * (IF x.e >= 0 THEN NatOf(x.m \o Zeros(x.e))
       ELSE NatOf(SubSeq(x.m, 1, Max(Len(x.m) + x.e, 0))))

\* The float with the 53-bit mantissa hi * 2^27 + lo and the exponent e.
Float53(hi, lo, e) == Canonical(FALSE, TrimBits(PadTo(BitsOf(hi), 26) \o PadTo(BitsOf(lo), 27)), e)

-----------------------------------------------------------------------------
(* Numbers beyond the model's integers *)

\* A Python number is held as an integer of the model, as the record
\* ScaledIntV(n, times) for the int n * times (times from 1 to 2^20, so the
\* int is below 2^51 and a float holds it exactly), or as a float.
IsModelInt(x) == SubSeq(ToString(x), 1, 1) # "["
IsScaled(x) == ~IsModelInt(x) /\ "times" \in DOMAIN x

Magnitude(n) == IF n < 0 THEN -n ELSE n

\* Three counts whose sums and weighted sums stay integers of the model.
AreSmall(a, b, c) ==
    /\ IsModelInt(a) /\ IsModelInt(b) /\ IsModelInt(c)
    /\ Magnitude(a) < Pow2(28) /\ Magnitude(b) < Pow2(28) /\ Magnitude(c) < Pow2(28)

\* float(x)
AsFloat(x) ==
    IF IsModelInt(x) THEN float_of_int(x)
    ELSE IF "times" \in DOMAIN x
         THEN Canonical(x.n < 0, MulBits(BitsOf(Magnitude(x.n)), x.times), 0)
    ELSE x

FloatLess(x, y) == float_add(x, [y EXCEPT !.neg = ~y.neg]).neg

\* x == 0, x > 0, x < y and max(x, y) for ints of either form
NumIsZero(x) == IF IsModelInt(x) THEN x = 0 ELSE x.n = 0
NumPositive(x) == IF IsModelInt(x) THEN x > 0 ELSE x.n > 0
NumLess(x, y) ==
    IF IsModelInt(x) /\ IsModelInt(y) THEN x < y ELSE FloatLess(AsFloat(x), AsFloat(y))
NumMax(x, y) == IF NumLess(x, y) THEN y ELSE x

\* One step of the long division by q: the remainder r with the next bit
\* of the dividend appended gives a bit of the quotient and a remainder.
DivideStep(r, q) ==
    IF LessBits(r, q) THEN [bits |-> <<0>>, r |-> r]
    ELSE [bits |-> <<1>>, r |-> SubBits(r, q)]

\* The long division of bits i to j of the dividend p, the remainder of
\* the bits before them being r: the bits of the quotient and the remainder
\* left.  The range is halved until it is one bit.
RECURSIVE LongDivide(_, _, _, _, _)
RECURSIVE DivideRest(_, _, _, _, _)
LongDivide(p, i, j, r, q) ==
    IF i > j THEN [bits |-> <<>>, r |-> r]
    ELSE IF i = j THEN DivideStep(TrimBits(r \o <<p[i]>>), q)
    ELSE DivideRest(LongDivide(p, i, (i + j) \div 2, r, q), p, ((i + j) \div 2) + 1, j, q)

DivideRest(first, p, i, j, q) == WithBits(first.bits, LongDivide(p, i, j, first.r, q))

\* The bits of p \div q, and one more bit that is 1 when a remainder is left.
WithSticky(d) == d.bits \o <<IF d.r = <<>> THEN 0 ELSE 1>>
QuotientOfBits(p, q) == WithSticky(LongDivide(p, 1, Len(p), <<>>, q))

\* The dividend's mantissa with zeros enough for a quotient of 55 bits.
QuotientShift(p, q) == Max(56 + Len(q) - Len(p), 0)

\* x / y for floats, y # 0: the float nearest to the quotient.
float_quot(x, y) ==
    IF x.m = <<>> THEN FloatZero
    ELSE Nearest(x.neg # y.neg,
                 TrimBits(QuotientOfBits(x.m \o Zeros(QuotientShift(x.m, y.m)), y.m)),
                 x.e - y.e - QuotientShift(x.m, y.m) - 1)

\* p / q: the true division of two ints, and a float divided by an int
\* (which is converted to a float first).
TrueDiv(p, q) ==
    IF IsModelInt(p) /\ IsModelInt(q) THEN float_div(p, q)
    ELSE float_quot(AsFloat(p), AsFloat(q))

-----------------------------------------------------------------------------
(* Text statistics: the three patterns and convert_count_to_number *)

\* End (exclusive) of the run of digits of s that starts at i; i itself when
\* s[i] is no digit.
DigitRunEnd(s, i) ==
    IF i > Len(s) THEN i
    ELSE CHOOSE j \in i..(Len(s) + 1) :
             /\ \A k \in i..(j - 1) : s[k] \in Digits
             /\ j <= Len(s) => s[j] \notin Digits

HasAt(s, i, lit) ==
    /\ i + Len(lit) - 1 <= Len(s)
    /\ \A k \in 1..Len(lit) : s[i + k - 1] = lit[k]

\* (?:\.\d+)? after the digits that end (exclusive) at j1.
FractionEnd(s, i, j1) ==
    IF j1 = i THEN i
    ELSE IF j1 <= Len(s) /\ s[j1] = "." /\ DigitRunEnd(s, j1 + 1) > j1 + 1
         THEN DigitRunEnd(s, j1 + 1)
         ELSE j1

\* (\d+(?:\.\d+)?) at i: the end (exclusive) of group 1, or i when there is
\* no digit at i.
NumberEnd(s, i) == FractionEnd(s, i, DigitRunEnd(s, i))

\* [KkMm]? <word> after a number that ends (exclusive) at j2.
SuffixAndWordAt(s, i, j2, word) ==
    /\ j2 > i
    /\ HasAt(s, IF j2 <= Len(s) /\ s[j2] \in {"K", "k", "M", "m"} THEN j2 + 1 ELSE j2,
             <<" ">> \o word)

\* r'(\d+(?:\.\d+)?)[KkMm]? <word>s?' matched at position i.
PatternMatchesAt(s, i, word) == SuffixAndWordAt(s, i, NumberEnd(s, i), word)

Group1At(s, i) == [matched |-> TRUE, group1 |-> SubSeq(s, i, NumberEnd(s, i) - 1)]

LeftmostMatch(s, starts) ==
    IF starts = {} THEN [matched |-> FALSE, group1 |-> <<>>]
    ELSE Group1At(s, CHOOSE x \in starts : \A y \in starts : x <= y)

\* pattern.search(text): the leftmost match, as {matched, group1}.
PatternSearch(s, word) ==
    LeftmostMatch(s, {i \in 1..Len(s) : PatternMatchesAt(s, i, word)})

WordView == <<"v", "i", "e", "w">>
WordLike == <<"l", "i", "k", "e">>
WordComment == <<"c", "o", "m", "m", "e", "n", "t">>
VIEW_COUNT_PATTERN(s) == PatternSearch(s, WordView)
LIKE_COUNT_PATTERN(s) == PatternSearch(s, WordLike)
COMMENT_COUNT_PATTERN(s) == PatternSearch(s, WordComment)

\* str.lower(): the characters that have a lowercase form, and their forms
\* in the same order.
UpperChars ==
    <<"A", "B", "C", "D", "E", "F", "G", "H", "I", "J", "K", "L", "M", "N", "O", "P",
     "Q", "R", "S", "T", "U", "V", "W", "X", "Y", "Z", "À", "Á", "Â", "Ã", "Ä", "Å",
     "Æ", "Ç", "È", "É", "Ê", "Ë", "Ì", "Í", "Î", "Ï", "Ð", "Ñ", "Ò", "Ó", "Ô", "Õ",
     "Ö", "Ø", "Ù", "Ú", "Û", "Ü", "Ý", "Þ">>
LowerChars ==
    <<"a", "b", "c", "d", "e", "f", "g", "h", "i", "j", "k", "l", "m", "n", "o", "p",
     "q", "r", "s", "t", "u", "v", "w", "x", "y", "z", "à", "á", "â", "ã", "ä", "å",
     "æ", "ç", "è", "é", "ê", "ë", "ì", "í", "î", "ï", "ð", "ñ", "ò", "ó", "ô", "õ",
     "ö", "ø", "ù", "ú", "û", "ü", "ý", "þ">>
LowerForms ==
    [c \in {UpperChars[i] : i \in DOMAIN UpperChars} |->
        LowerChars[CHOOSE i \in DOMAIN UpperChars : UpperChars[i] = c]]
LowerChar(c) == IF c \in DOMAIN LowerForms THEN LowerForms[c] ELSE c
Lower(s) == [i \in 1..Len(s) |-> LowerChar(s[i])]

\* int(number) after the multiplier is applied; number = float(group 1) is
\* the float nearest to the decimal num / den, and number *= 1000 (or
\* 1000000) is a float product.
ScaleAndTruncate(num, den, multiplier) ==
    int_of_float(IF multiplier = "k" THEN float_mul(float_div(num, den), 1000)
                 ELSE IF multiplier = "m" THEN float_mul(float_div(num, den), 1000000)
                 ELSE float_div(num, den))

\* g1 is group 1 (digits, optionally a point and digits); ip is the end
\* (exclusive) of its integer part.
NumberOf(g1, ip, multiplier) ==
    ScaleAndTruncate(
        DecimalValue(SubSeq(g1, 1, ip - 1)) * Pow10(Max(Len(g1) - ip, 0))
            + DecimalValue(SubSeq(g1, ip + 1, Len(g1))),
        Pow10(Max(Len(g1) - ip, 0)),
        multiplier)

\* re.match(r'(\d+(?:\.\d+)?)([km])?', s) with j the end (exclusive) of group 1.
ConvertMatched(s, j) ==
    IF j = 1 THEN 0
    ELSE NumberOf(SubSeq(s, 1, j - 1), DigitRunEnd(s, 1),
                  IF j <= Len(s) /\ s[j] \in {"k", "m"} THEN s[j] ELSE "")

ConvertNormalized(s) == ConvertMatched(s, NumberEnd(s, 1))

\* convert_count_to_number: strip and lower the string, match a number and
\* an optional k / m, multiply by 1000 / 1000000, truncate with int().
convert_count_to_number(count_str) == ConvertNormalized(Lower(Strip(count_str)))

-----------------------------------------------------------------------------
(* extract_statistics *)

\* The characters of the key names that are looked up with `in`.
KeyText(key) ==
    CASE key = "itemStruct" -> <<"i", "t", "e", "m", "S", "t", "r", "u", "c", "t">>
      [] key = "stats" -> <<"s", "t", "a", "t", "s">>
      [] key = "createTime" -> <<"c", "r", "e", "a", "t", "e", "T", "i", "m", "e">>
      [] key = "text" -> <<"t", "e", "x", "t">>

\* `key in obj`: membership in a dict's keys; a substring test on a string;
\* TypeError on None or an int.
In(key, obj) ==
    CASE obj.t = "dict" -> Return(key \in DOMAIN obj.d)
      [] obj.t = "str" -> Return(\E i \in 1..Len(obj.s) : HasAt(obj.s, i, KeyText(key)))
      [] OTHER -> Raise("TypeError")

\* obj[key] once `key in obj` held: the entry of a dict; a string cannot be
\* indexed by a key (TypeError).
Item(obj, key) == IF obj.t = "dict" THEN Return(obj.d[key]) ELSE Raise("TypeError")

\* obj.get(key, dflt) on a value that should be a dict.
DictGet(obj, key, dflt) ==
    IF obj.t = "dict" THEN Return(Get(obj.d, key, dflt)) ELSE Raise("AttributeError")

\* raw_video['itemInfo']['itemStruct'].get(key, dflt)
ItemStructGet(raw, key, dflt) ==
    IF Item(raw.itemInfo, "itemStruct").raised THEN Item(raw.itemInfo, "itemStruct")
    ELSE DictGet(Item(raw.itemInfo, "itemStruct").value, key, dflt)

\* The first of the four conversions that raised, or the stats they give.
CollectStats(p, l, c, s) ==
    IF p.raised THEN p
    ELSE IF l.raised THEN l
    ELSE IF c.raised THEN c
    ELSE IF s.raised THEN s
    ELSE Return([view_count |-> p.value, like_count |-> l.value,
                 comment_count |-> c.value, share_count |-> s.value])

\* The four assignments stats[...] = int(direct_stats.get(<key>, 0)), in
\* order; the first conversion that raises ends the call.
ReadDirectStats(direct_stats) ==
    IF direct_stats.t # "dict" THEN Raise("AttributeError")
    ELSE CollectStats(int(Get(direct_stats.d, "playCount", IntV(0))),
                      int(Get(direct_stats.d, "diggCount", IntV(0))),
                      int(Get(direct_stats.d, "commentCount", IntV(0))),
                      int(Get(direct_stats.d, "shareCount", IntV(0))))

\* The elif / elif after `if 'text' in raw_video`; viaInfo is the outcome of
\* `'text' in raw_video['videoInfo']`.  NoneV stands for a lookup that raised.
VideoTextFrom(raw, viaInfo) ==
    IF viaInfo.raised THEN NoneV
    ELSE IF viaInfo.value
         THEN (IF raw.videoInfo.t = "dict" THEN raw.videoInfo.d.text ELSE NoneV)
    ELSE IF "desc" \in DOMAIN raw THEN raw.desc
    ELSE StrV(<<>>)

VideoText(raw) ==
    IF "text" \in DOMAIN raw THEN raw.text
    ELSE VideoTextFrom(raw, IF "videoInfo" \in DOMAIN raw
                            THEN In("text", raw.videoInfo) ELSE Return(FALSE))

\* if match: stats[key] = convert_count_to_number(match.group(1))
MatchedCount(key, match) ==
    IF match.matched THEN key :> convert_count_to_number(match.group1) ELSE EmptyDict

\* The three searches and assignments.  A text that is no string makes the
\* first search raise, which the except clause swallows with nothing assigned.
TextStatsOf(video_text) ==
    IF video_text.t # "str" THEN EmptyDict
    ELSE MatchedCount("view_count", VIEW_COUNT_PATTERN(video_text.s))
         @@ MatchedCount("like_count", LIKE_COUNT_PATTERN(video_text.s))
         @@ MatchedCount("comment_count", COMMENT_COUNT_PATTERN(video_text.s))

\* Method 3: the try block with its except clause.
TextStats(raw) == TextStatsOf(VideoText(raw))

\* A variant of method 2 that does not read shareCount (line 132 left out).
ItemStructStatsWithoutShares(item_struct, hasStats) ==
    IF hasStats.raised THEN hasStats
    ELSE IF ~hasStats.value THEN Return(EmptyDict)
    ELSE IF item_struct.t # "dict" THEN Raise("TypeError")
    ELSE IF item_struct.d.stats.t # "dict" THEN Raise("AttributeError")
    ELSE CollectStats(int(Get(item_struct.d.stats.d, "playCount", IntV(0))),
                      int(Get(item_struct.d.stats.d, "diggCount", IntV(0))),
                      int(Get(item_struct.d.stats.d, "commentCount", IntV(0))),
                      Return(0))

\* Method 2 once 'itemStruct' is known to be in raw_video['itemInfo'].
ItemStructStats(item_struct, hasStats) ==
    IF hasStats.raised THEN hasStats
    ELSE IF ~hasStats.value THEN Return(EmptyDict)
    ELSE IF item_struct.t # "dict" THEN Raise("TypeError")
    ELSE ReadDirectStats(item_struct.d.stats)

ItemInfoStats(raw, hasStruct) ==
    IF hasStruct.raised THEN hasStruct
    ELSE IF ~hasStruct.value THEN Return(TextStats(raw))
    ELSE IF raw.itemInfo.t # "dict" THEN Raise("TypeError")
    ELSE ItemStructStats(raw.itemInfo.d.itemStruct,
                         In("stats", raw.itemInfo.d.itemStruct))

\* The three methods (if / elif / else); the result is the stats dict so
\* far, or the exception that leaves extract_statistics.
StructuredStats(raw) ==
    IF "stats" \in DOMAIN raw THEN ReadDirectStats(raw.stats)
    ELSE IF "itemInfo" \notin DOMAIN raw THEN Return(TextStats(raw))
    ELSE ItemInfoStats(raw, In("itemStruct", raw.itemInfo))

ViewFields == <<"playCount", "play_count", "views", "viewCount">>

\* The for loop over ViewFields from position i: the first field that is
\* present and converts sets view_count and breaks; a ValueError or
\* TypeError moves on to the next field.
RECURSIVE ViewFromFields(_, _, _)
ViewFromFields(raw, stats, i) ==
    IF i > Len(ViewFields) THEN stats
    ELSE IF ViewFields[i] \in DOMAIN raw /\ ~int(raw[ViewFields[i]]).raised
         THEN ("view_count" :> int(raw[ViewFields[i]]).value) @@ stats
         ELSE ViewFromFields(raw, stats, i + 1)

LateViewCount(raw, stats) ==
    IF "view_count" \notin DOMAIN stats \/ NumIsZero(stats.view_count)
    THEN ViewFromFields(raw, stats, 1)
    ELSE stats

SetDefaults(stats) ==
    stats @@ [view_count |-> 0, like_count |-> 0, comment_count |-> 0, share_count |-> 0]

\* math.log10(v) for the view counts the model's inputs produce, as the
\* floats the C library returns.
Log10OfScaled(x) ==
    CASE x = AsFloat(ScaledIntV(1700000000, 1000)) -> Float53(51298220, 111767475, -49)

math_log10(v) ==
    IF ~IsModelInt(v) THEN Log10OfScaled(AsFloat(v))
    ELSE
    CASE v = 1 -> FloatZero
      [] v = 5 -> Float53(46907082, 128992001, -53)
      [] v = 7 -> Float53(56713569, 58248255, -53)
      [] v = 9 -> Float53(64038130, 105895421, -53)
      [] v = 10 -> Float53(33554432, 0, -52)
      [] v = 12 -> Float53(36211313, 98808447, -52)
      [] v = 40 -> Float53(53756213, 5225728, -52)
      [] v = 300 -> Float53(41559198, 46791360, -51)
      [] v = 1200 -> Float53(51660088, 116513087, -51)
      [] v = 10000 -> Float53(33554432, 0, -50)
      [] v = 20000 -> Float53(36079654, 84539296, -50)
      [] v = 30000 -> Float53(37556815, 23395680, -50)

\* view_score: math.log10(view_count) * 2 for view_count > 0, else 0
ViewScore(view_count) ==
    IF NumPositive(view_count) THEN float_mul(math_log10(view_count), 2) ELSE FloatZero

\* engagement_score: weighted / divisor * 10, the weighted engagement being
\* an exact float
EngagementScore(weighted, divisor) == float_mul(TrueDiv(weighted, divisor), 10)

\* A variant of the score in which the view score is subtracted (`-`
\* written for `+` in the final sum).
RoundedScoreMinusViews(view_count, weighted, divisor) ==
    round(float_add(EngagementScore(weighted, divisor),
                    [ViewScore(view_count) EXCEPT !.neg = NumPositive(view_count)]), 100)

\* round(view_score + engagement_score, 2) in units of 1/100
RoundedScore(view_count, weighted, divisor) ==
    round(float_add(ViewScore(view_count), EngagementScore(weighted, divisor)), 100)

\* like_count + comment_count + share_count: an int of the model when the
\* three are small, else the float that holds the sum.
Engagement(like_count, comment_count, share_count) ==
    IF AreSmall(like_count, comment_count, share_count)
    THEN like_count + comment_count + share_count
    ELSE float_add(float_add(AsFloat(like_count), AsFloat(comment_count)),
                   AsFloat(share_count))

\* like_count * 1.0 + comment_count * 2.0 + share_count * 3.0, a float the
\* model holds as an int when the three counts are small.
Weighted(like_count, comment_count, share_count) ==
    IF AreSmall(like_count, comment_count, share_count)
    THEN like_count * 1 + comment_count * 2 + share_count * 3
    ELSE float_add(float_add(float_mul(AsFloat(like_count), 1),
                             float_mul(AsFloat(comment_count), 2)),
                   float_mul(AsFloat(share_count), 3))

\* calculate_engagement_metrics' score: the weighted engagement
\* likes * 1.0 + comments * 2.0 + shares * 3.0 is divided by max(views, 1).
MetricsScore(view_count, like_count, comment_count, share_count) ==
    RoundedScore(view_count, Weighted(like_count, comment_count, share_count),
                 NumMax(view_count, 1))

EngagementRate(view_count, like_count, comment_count, share_count) ==
    IF NumPositive(view_count)
    THEN round(TrueDiv(Engagement(like_count, comment_count, share_count), view_count),
               10000)
    ELSE 0

calculate_engagement_metrics(stats) ==
    [engagement_rate |->
        EngagementRate(stats.view_count, stats.like_count, stats.comment_count,
                       Get(stats, "share_count", 0)),
     performance_score |->
        MetricsScore(stats.view_count, stats.like_count, stats.comment_count,
                     Get(stats, "share_count", 0))]
    @@ stats

\* From the late view-count fallback to the return.
FinishStatistics(raw, s) ==
    IF s.raised THEN s
    ELSE Return(calculate_engagement_metrics(SetDefaults(LateViewCount(raw, s.value))))

extract_statistics(raw) == FinishStatistics(raw, StructuredStats(raw))

-----------------------------------------------------------------------------
(* The ranker *)

\* The defaults of is_trending's parameters: min_views = 10000 and
\* min_engagement = 0.05 (in units of 1/10000).
DEFAULT_MIN_VIEWS == 10000
DEFAULT_MIN_ENGAGEMENT == 500

\* A variant of the decision whose view test also rejects a view count
\* equal to the threshold (`<=` written for `<`).
TrendingDecisionStrict(view_count, engagement_rate, min_views, min_engagement) ==
    IF ~NumLess(min_views, view_count) THEN FALSE
    ELSE IF engagement_rate < min_engagement THEN FALSE
    ELSE TRUE

TrendingDecision(view_count, engagement_rate, min_views, min_engagement) ==
    IF NumLess(view_count, min_views) THEN FALSE
    ELSE IF engagement_rate < min_engagement THEN FALSE
    ELSE TRUE

is_trending(stats, min_views, min_engagement) ==
    TrendingDecision(Get(stats, "view_count", 0), Get(stats, "engagement_rate", 0),
                     min_views, min_engagement)

\* The direct computation of calculate_performance_score, in units of
\* 1/100: the engagement term is 0 unless views > 0.
DirectScore(view_count, like_count, comment_count, share_count) ==
    IF NumPositive(view_count)
    THEN RoundedScore(view_count, Weighted(like_count, comment_count, share_count),
                      view_count)
    ELSE 0

ScoreOfStats(stats) ==
    IF "performance_score" \in DOMAIN stats THEN stats.performance_score
    ELSE DirectScore(Get(stats, "view_count", 0), Get(stats, "like_count", 0),
                     Get(stats, "comment_count", 0), Get(stats, "share_count", 0))

\* calculate_performance_score(video): reads video['statistics'] (an empty
\* dict when the argument has no such key), returns its performance_score
\* when it has one and computes the score from its counts otherwise.
calculate_performance_score(video) == ScoreOfStats(Get(video, "statistics", EmptyDict))

-----------------------------------------------------------------------------
(* extract_hook and extract_hashtags *)

\* s.split(sep)[0]: s up to the first sep
Positions(s, sep) == {i \in 1..Len(s) : s[i] = sep}
FirstPiece(s, sep) ==
    IF Positions(s, sep) = {} THEN s
    ELSE SubSeq(s, 1, (CHOOSE i \in Positions(s, sep) : \A j \in Positions(s, sep) : i <= j) - 1)

\* s[:100]
First100(s) == SubSeq(s, 1, IF Len(s) < 100 THEN Len(s) ELSE 100)

\* extract_hook(description) for a text: the first line of the stripped
\* text, else the first sentence, else the text itself, each stripped and
\* cut to 100 characters.
extract_hook(description) ==
    IF description = <<>> THEN <<>>
    ELSE IF Strip(FirstPiece(Strip(description), "\n")) # <<>>
         THEN First100(Strip(FirstPiece(Strip(description), "\n")))
    ELSE IF Strip(FirstPiece(description, ".")) # <<>>
         THEN First100(Strip(FirstPiece(description, ".")))
    ELSE Strip(First100(description))

\* \w: a letter, a digit or the underscore; among the first 256 code
\* points the letters and the digits beyond ASCII count too.
Letters ==
    {"A", "B", "C", "D", "E", "F", "G", "H", "I", "J", "K", "L", "M", "N", "O", "P",
     "Q", "R", "S", "T", "U", "V", "W", "X", "Y", "Z", "a", "b", "c", "d", "e", "f",
     "g", "h", "i", "j", "k", "l", "m", "n", "o", "p", "q", "r", "s", "t", "u", "v",
     "w", "x", "y", "z", "ª", "²", "³", "µ", "¹", "º", "¼", "½", "¾", "À", "Á", "Â",
     "Ã", "Ä", "Å", "Æ", "Ç", "È", "É", "Ê", "Ë", "Ì", "Í", "Î", "Ï", "Ð", "Ñ", "Ò",
     "Ó", "Ô", "Õ", "Ö", "Ø", "Ù", "Ú", "Û", "Ü", "Ý", "Þ", "ß", "à", "á", "â", "ã",
     "ä", "å", "æ", "ç", "è", "é", "ê", "ë", "ì", "í", "î", "ï", "ð", "ñ", "ò", "ó",
     "ô", "õ", "ö", "ø", "ù", "ú", "û", "ü", "ý", "þ", "ÿ"}
IsWordChar(c) == c \in Letters \cup Digits \cup {"_"}

\* The position after the run of word characters that starts at i.
WordRunEnd(s, i) ==
    IF i > Len(s) THEN i
    ELSE CHOOSE j \in i..(Len(s) + 1) :
             /\ \A k \in i..(j - 1) : IsWordChar(s[k])
             /\ j <= Len(s) => ~IsWordChar(s[j])

\* The positions from i on where r'#(\w+)' matches: a '#' before a word
\* character.  No two matches overlap, '#' being no word character.
HashtagStarts(text, i) ==
    {j \in i..(Len(text) - 1) : text[j] = "#" /\ IsWordChar(text[j + 1])}
NthOf(S, n) == CHOOSE j \in S : Cardinality({k \in S : k < j}) = n - 1
HashtagAt(text, j) == SubSeq(text, j + 1, WordRunEnd(text, j + 1) - 1)

\* re.findall(r'#(\w+)', text) from position i: the groups of the
\* non-overlapping matches, left to right.
FindAllHashtags(text, i) ==
    [n \in 1..Cardinality(HashtagStarts(text, i)) |->
        HashtagAt(text, NthOf(HashtagStarts(text, i), n))]

\* list(set(xs)): the distinct elements in the order the set iterates,
\* which the language leaves open.
ListOfSet(S) ==
    {f \in [1..Cardinality(S) -> S] : \A i, j \in DOMAIN f : i # j => f[i] # f[j]}

Elements(xs) == {xs[i] : i \in DOMAIN xs}

\* video_parser.extract_hashtags: the lists it can return.
extract_hashtags(description) ==
    IF description = <<>> THEN {<<>>}
    ELSE ListOfSet(Elements(FindAllHashtags(description, 1)))

-----------------------------------------------------------------------------
(* extract_timestamp and parse_video_data *)

\* The expression `datetime.datetime` of video_parser.py.  The module binds
\* the name datetime with `from datetime import datetime, timedelta`, so it
\* is the class, which has no attribute `datetime`: evaluating the expression
\* raises AttributeError.
datetime_datetime == Raise("AttributeError")

\* bool(x) of a raw value.
Truthy(v) ==
    CASE v.t = "int" -> v.n # 0
      [] v.t = "str" -> v.s # <<>>
      [] v.t = "dict" -> DOMAIN v.d # {}
      [] OTHER -> FALSE

\* int(x) inside try / except (ValueError, TypeError): pass -- None stays.
TryInt(v) ==
    IF v.t = "int" THEN v
    ELSE IF int(v).raised THEN NoneV ELSE IntV(int(v).value)

\* datetime.datetime.now().isoformat()
IsoNow == IF datetime_datetime.raised THEN datetime_datetime ELSE Return([iso_of |-> "now"])

\* The last second of year 9999, 253402300799.
MaxTimestamp == float_add(AsFloat(ScaledIntV(253402300, 1000)), float_of_int(799))

\* datetime.datetime.fromtimestamp(timestamp).isoformat(): a ValueError for
\* an instant beyond year 9999, which a count of milliseconds of these
\* years is.
IsoFromTimestamp(timestamp) ==
    IF datetime_datetime.raised THEN datetime_datetime
    ELSE IF NumLess(MaxTimestamp, IntOf(timestamp)) THEN Raise("ValueError")
    ELSE Return([iso_of |-> IntOf(timestamp)])

\* try: ... except (ValueError, TypeError, OverflowError): pass, and then
\* the final return.
IsoOrNow(iso) ==
    IF iso.raised /\ iso.exc \in {"ValueError", "TypeError", "OverflowError"}
    THEN IsoNow
    ELSE iso

\* `if timestamp:` and what follows.
ConvertTimestamp(timestamp) ==
    IF Truthy(timestamp) THEN IsoOrNow(IsoFromTimestamp(timestamp)) ELSE IsoNow

NestedTimestamp(item_struct, hasTime) ==
    IF hasTime.raised THEN hasTime
    ELSE ConvertTimestamp(IF hasTime.value /\ item_struct.t = "dict"
                          THEN TryInt(item_struct.d.createTime) ELSE NoneV)

ItemInfoTimestamp(raw, hasStruct) ==
    IF hasStruct.raised THEN hasStruct
    ELSE IF hasStruct.value /\ raw.itemInfo.t # "dict" THEN Raise("TypeError")
    ELSE IF hasStruct.value
         THEN NestedTimestamp(raw.itemInfo.d.itemStruct,
                              In("createTime", raw.itemInfo.d.itemStruct))
         ELSE ConvertTimestamp(NoneV)

extract_timestamp(raw) ==
    IF "createTime" \in DOMAIN raw THEN ConvertTimestamp(TryInt(raw.createTime))
    ELSE IF "itemInfo" \in DOMAIN raw
         THEN ItemInfoTimestamp(raw, In("itemStruct", raw.itemInfo))
         ELSE ConvertTimestamp(NoneV)

\* The first of `fields` (from position i) that is a key of raw gives the
\* value, whatever it is; NoneV when none is a key.
RECURSIVE FirstPresent(_, _, _)
FirstPresent(raw, fields, i) ==
    IF i > Len(fields) THEN NoneV
    ELSE IF fields[i] \in DOMAIN raw THEN raw[fields[i]]
    ELSE FirstPresent(raw, fields, i + 1)

\* `'itemInfo' in raw_video and 'itemStruct' in raw_video['itemInfo']`
HasItemStruct(raw) ==
    IF "itemInfo" \in DOMAIN raw THEN In("itemStruct", raw.itemInfo) ELSE Return(FALSE)

AuthorNameFrom(author, nick) ==
    IF nick.raised THEN nick ELSE DictGet(author, "uniqueId", nick.value)

\* author.get('uniqueId', author.get('nickname', 'unknown'))
AuthorName(author) ==
    AuthorNameFrom(author, DictGet(author, "nickname", StrV(<<"u", "n", "k", "n", "o", "w", "n">>)))

NestedVideoId(raw, first, nested) ==
    IF nested.raised THEN nested
    ELSE IF nested.value THEN ItemStructGet(raw, "id", NoneV)
    ELSE Return(first)

VideoIdFrom(raw, first) ==
    NestedVideoId(raw, first, IF Truthy(first) THEN Return(FALSE) ELSE HasItemStruct(raw))

\* The loop over id, videoId, video_id, itemId and the nested fallback.
ResolveVideoId(raw) ==
    VideoIdFrom(raw, FirstPresent(raw, <<"id", "videoId", "video_id", "itemId">>, 1))

NestedAuthorName(author) == IF author.raised THEN author ELSE AuthorName(author.value)

NestedAuthor(raw, nested) ==
    IF nested.raised THEN nested
    ELSE IF nested.value
         THEN NestedAuthorName(ItemStructGet(raw, "author", DictV(EmptyDict)))
         ELSE Return(StrV(<<"u", "n", "k", "n", "o", "w", "n">>))

ResolveAuthor(raw) ==
    IF "author" \in DOMAIN raw THEN AuthorName(raw.author)
    ELSE IF "author_id" \in DOMAIN raw THEN Return(Get(raw, "author_name", raw.author_id))
    ELSE IF "authorInfo" \in DOMAIN raw THEN AuthorName(raw.authorInfo)
    ELSE NestedAuthor(raw, HasItemStruct(raw))

DigitChar(d) == <<"0", "1", "2", "3", "4", "5", "6", "7", "8", "9">>[d + 1]

RECURSIVE DigitsOf(_)
DigitsOf(n) ==
    IF n < 10 THEN <<DigitChar(n)>> ELSE DigitsOf(n \div 10) \o <<DigitChar(n % 10)>>

\* str(x): a string is itself and an int its decimal digits; the text of
\* any other value is not spelled out.
str(v) ==
    CASE v.t = "str" -> v
      [] v.t = "int" /\ "times" \notin DOMAIN v ->
            StrV(IF v.n < 0 THEN <<"-">> \o DigitsOf(-v.n) ELSE DigitsOf(v.n))
      [] OTHER -> [t |-> "str", str_of |-> v]

\* f"https://www.tiktok.com/@user/video/{video_id}"
UserVideoUrl(video_id) ==
    IF "s" \in DOMAIN str(video_id)
    THEN StrV(<<"h", "t", "t", "p", "s", ":", "/", "/", "w", "w", "w", ".", "t", "i", "k",
                "t", "o", "k", ".", "c", "o", "m", "/", "@", "u", "s", "e", "r", "/", "v",
                "i", "d", "e", "o", "/">> \o str(video_id).s)
    ELSE [t |-> "str", user_video |-> video_id]

\* video_url: the first url field present, else a url built from the id
\* with the fixed handle '@user', else ''.
ResolveVideoUrl(url_first, video_id) ==
    IF Truthy(url_first) THEN url_first
    ELSE IF Truthy(video_id) THEN UserVideoUrl(video_id)
    ELSE StrV(<<>>)

\* The loop over desc, description, text: the first that is a key gives the
\* description, '' when none is.
RECURSIVE FirstDescription(_, _, _)
FirstDescription(raw, fields, i) ==
    IF i > Len(fields) THEN StrV(<<>>)
    ELSE IF fields[i] \in DOMAIN raw THEN raw[fields[i]]
    ELSE FirstDescription(raw, fields, i + 1)

NestedDescription(raw, first, nested) ==
    IF nested.raised THEN nested
    ELSE IF nested.value THEN ItemStructGet(raw, "desc", StrV(<<>>))
    ELSE Return(first)

DescriptionFrom(raw, first) ==
    NestedDescription(raw, first, IF Truthy(first) THEN Return(FALSE) ELSE HasItemStruct(raw))

ResolveDescription(raw) ==
    DescriptionFrom(raw, FirstDescription(raw, <<"desc", "description", "text">>, 1))

\* video['hook'] = extract_hook(description): `not description` gives '',
\* and .strip() of a value that is no string raises AttributeError.
HookOf(description) ==
    IF description.raised THEN description
    ELSE IF ~Truthy(description.value) THEN Return(StrV(<<>>))
    ELSE IF description.value.t # "str" THEN Raise("AttributeError")
    ELSE Return(StrV(extract_hook(description.value.s)))

\* video['hashtags'] = extract_hashtags(description): the lists it can be.
HashtagsOf(description) ==
    IF description.raised THEN description
    ELSE IF ~Truthy(description.value) THEN Return({<<>>})
    ELSE IF description.value.t # "str" THEN Raise("TypeError")
    ELSE Return(extract_hashtags(description.value.s))

\* music_obj.get('title', '') + ' - ' + music_obj.get('authorName', '')
MusicText(title, authorName) ==
    IF title.t # "str" \/ authorName.t # "str" THEN Raise("TypeError")
    ELSE Return(StrV(StripChars(title.s \o <<" ", "-", " ">> \o authorName.s, {"-", " "})))

MusicOf(music_obj) ==
    IF music_obj.t # "dict" THEN Raise("AttributeError")
    ELSE MusicText(Get(music_obj.d, "title", StrV(<<>>)),
                   Get(music_obj.d, "authorName", StrV(<<>>)))

NestedMusicOf(music_obj) == IF music_obj.raised THEN music_obj ELSE MusicOf(music_obj.value)

NestedMusic(raw, nested) ==
    IF nested.raised THEN nested
    ELSE IF nested.value
         THEN NestedMusicOf(ItemStructGet(raw, "music", DictV(EmptyDict)))
         ELSE Return(StrV(<<>>))

\* music, with music.strip('- ') applied
ResolveMusic(raw) ==
    IF "music" \in DOMAIN raw THEN MusicOf(raw.music)
    ELSE NestedMusic(raw, HasItemStruct(raw))

\* The steps of the try block in order; the first that raised ends it.
StepsRaised(steps, i) == steps[i].raised /\ \A k \in 1..(i - 1) : ~steps[k].raised

FirstRaised(steps) == steps[CHOOSE i \in 1..Len(steps) : StepsRaised(steps, i)]

AssembleVideo(raw, keyword, video_id, author, description, music, timestamp, statistics) ==
    IF \E i \in 1..8 : <<video_id, author, description, HookOf(description),
                          HashtagsOf(description), music, timestamp, statistics>>[i].raised
    THEN FirstRaised(<<video_id, author, description, HookOf(description),
                       HashtagsOf(description), music, timestamp, statistics>>)
    ELSE Return([keyword |-> keyword,
                 raw_data |-> Get(raw, "debug_data", DictV(EmptyDict)),
                 video_id |-> IF Truthy(video_id.value) THEN str(video_id.value)
                              ELSE [unknown_hash_of |-> raw],
                 video_url |-> ResolveVideoUrl(
                                   FirstPresent(raw, <<"url", "shareUrl", "share_url",
                                                       "webVideoUrl">>, 1),
                                   video_id.value),
                 author |-> author.value,
                 description |-> description.value,
                 hook |-> HookOf(description).value,
                 hashtags |-> HashtagsOf(description).value,
                 music |-> music.value,
                 timestamp |-> timestamp.value,
                 statistics |-> statistics.value,
                 is_trending |-> is_trending(statistics.value, DEFAULT_MIN_VIEWS,
                                             DEFAULT_MIN_ENGAGEMENT)])

\* The body of parse_video_data's try block, to the return of the video.
ParseBody(raw, keyword) ==
    AssembleVideo(raw, keyword, ResolveVideoId(raw), ResolveAuthor(raw),
                  ResolveDescription(raw), ResolveMusic(raw),
                  extract_timestamp(raw), extract_statistics(raw))

\* The record the except clause builds; 'hashtags' holds the lists the
\* entry can be, here the empty list only.
MinimalVideo(raw, keyword) ==
    [video_id |-> [error_hash_of |-> raw], keyword |-> keyword,
     description |-> StrV(<<>>), hook |-> StrV(<<>>), hashtags |-> {<<>>},
     author |-> StrV(<<"u", "n", "k", "n", "o", "w", "n">>), timestamp |-> [iso_of |-> "now"],
     statistics |-> [view_count |-> 0, like_count |-> 0, comment_count |-> 0,
                     share_count |-> 0, engagement_rate |-> 0, performance_score |-> 0],
     is_trending |-> FALSE]

\* except Exception: log and return the minimal record, whose 'timestamp'
\* entry is datetime.datetime.now().isoformat().
HandleParseError(raw, keyword, body) ==
    IF ~body.raised THEN body
    ELSE IF datetime_datetime.raised THEN datetime_datetime
    ELSE Return(MinimalVideo(raw, keyword))

parse_video_data(raw, keyword) == HandleParseError(raw, keyword, ParseBody(raw, keyword))

-----------------------------------------------------------------------------
(* The raw records the functions are applied to *)

Opt(key, values) == {EmptyDict} \cup {key :> v : v \in values}

PlayCountValues ==
    {IntV(0), IntV(-5), IntV(7), IntV(20000), StrV(<<"1", "2">>), StrV(<<"a", "b", "c">>), NoneV}
DiggCountValues == {IntV(1000), IntV(-4), StrV(<<"a", "b", "c">>)}
CommentCountValues == {IntV(200)}
ShareCountValues == {IntV(50), NoneV}

StatsDicts ==
    {p @@ l @@ c @@ sh :
        p \in Opt("playCount", PlayCountValues), l \in Opt("diggCount", DiggCountValues),
        c \in Opt("commentCount", CommentCountValues),
        sh \in Opt("shareCount", ShareCountValues)}

NestedStatsDicts ==
    {p @@ l : p \in Opt("playCount", PlayCountValues), l \in Opt("diggCount", DiggCountValues)}

\* Top-level view-count fields, read by the late fallback.
LateFields ==
    { EmptyDict,
      [views |-> IntV(9)],
      [views |-> StrV(<<"x">>), viewCount |-> IntV(10000)],
      [playCount |-> NoneV, views |-> StrV(<<"1", "2">>)] }

Texts ==
    { <<"1", ".", "2", "K", " ", "v", "i", "e", "w", "s", ",", " ", "3", "0", "0", " ", "l", "i", "k", "e", "s">>,
      <<"1", "0", "K", " ", "v", "i", "e", "w", "s", " ", "5", " ", "c", "o", "m", "m", "e", "n", "t", "s">>,
      <<"1", ".", "5", "M", " ", "v", "i", "e", "w", "s">>,
      <<"3", "0", "0", " ", "l", "i", "k", "e", "s">>,
      <<"n", "o", " ", "s", "t", "a", "t", "s">>,
      <<"1", "2", " ", "v", "i", "e", "w", " ", "4", "0", " ", "l", "i", "k", "e", " ", "7", " ", "c", "o", "m", "m", "e", "n", "t">> }

TextFields ==
    {[text |-> StrV(t)] : t \in Texts}
    \cup {[desc |-> StrV(t)] : t \in Texts}
    \cup { EmptyDict, [text |-> NoneV],
           [text |-> StrV(<<"n", "o">>), desc |-> StrV(<<"3", "0", "0", " ", "l", "i", "k", "e", "s">>)],
           [videoInfo |-> DictV([text |-> StrV(<<"1", ".", "2", "K", " ", "v", "i", "e", "w", "s", ",", " ", "3", "0", "0", " ", "l", "i", "k", "e", "s">>)])],
           [videoInfo |-> DictV(EmptyDict), desc |-> StrV(<<"3", "0", "0", " ", "l", "i", "k", "e", "s">>)],
           [videoInfo |-> NoneV, desc |-> StrV(<<"3", "0", "0", " ", "l", "i", "k", "e", "s">>)] }

ItemInfos ==
    {DictV([itemStruct |-> DictV([stats |-> DictV(d)])]) : d \in NestedStatsDicts}
    \cup { NoneV, DictV(EmptyDict), DictV([itemStruct |-> DictV(EmptyDict)]),
           DictV([itemStruct |-> NoneV]),
           DictV([itemStruct |-> DictV([stats |-> NoneV])]) }

\* A 'stats' mapping placed at raw_video['itemInfo']['itemStruct']['stats'].
NestedUnderItemStruct(stats) ==
    [itemInfo |-> DictV([itemStruct |-> DictV([stats |-> stats])])]

RawStatRecords ==
    {[stats |-> DictV(d)] @@ late : d \in StatsDicts, late \in LateFields}
    \cup {[stats |-> DictV([playCount |-> IntV(30000), diggCount |-> IntV(1499)])],
          [stats |-> DictV([playCount |-> IntV(10000), diggCount |-> IntV(5)])],
          [stats |-> DictV([playCount |-> IntV(20000), diggCount |-> IntV(1)])],
          [stats |-> DictV([playCount |-> StrV(<<" ", "1", "_", "2">>)])],
          [stats |-> DictV([playCount |-> StrV(<<"", "1", "2">>), diggCount |-> IntV(5)])],
          [stats |-> DictV([playCount |-> StrV(<<"1", "2", " ">>)])],
          [stats |-> DictV([playCount |-> StrV(<<"", "1", "2">>)])]}
    \cup {NestedUnderItemStruct(DictV(d)) : d \in StatsDicts}
    \cup {[stats |-> NoneV] @@ late : late \in LateFields}
    \cup {[itemInfo |-> i] @@ t @@ late :
            i \in ItemInfos, t \in {EmptyDict, [text |-> StrV(<<"1", ".", "2", "K", " ", "v", "i", "e", "w", "s", ",", " ", "3", "0", "0", " ", "l", "i", "k", "e", "s">>)]}, late \in LateFields}
    \cup {t @@ late : t \in TextFields, late \in LateFields}
    \cup {[stats |-> DictV(d), itemInfo |-> i, text |-> StrV(<<"1", ".", "2", "K", " ", "v", "i", "e", "w", "s", ",", " ", "3", "0", "0", " ", "l", "i", "k", "e", "s">>)] :
            d \in {EmptyDict, [playCount |-> IntV(7)]},
            i \in {NoneV, DictV([itemStruct |-> DictV([stats |-> DictV([playCount |-> IntV(20000)])])])}}

\* Records with identity fields, for parse_video_data.
RawVideoRecords ==
    {i @@ a @@ c @@ st :
        i \in {EmptyDict, [id |-> StrV(<<"v", "1">>)], [id |-> NoneV, videoId |-> IntV(123)]},
        a \in {EmptyDict, [author |-> DictV([uniqueId |-> StrV(<<"b", "o", "b">>)])],
               [author |-> StrV(<<"b", "o", "b">>)]},
        c \in {EmptyDict, [createTime |-> IntV(1700000000)],
               [createTime |-> ScaledIntV(1700000000, 1000)],
               [createTime |-> StrV(<<"a", "b", "c">>)]},
        st \in {EmptyDict,
                [stats |-> DictV([playCount |-> IntV(20000), diggCount |-> IntV(1000),
                                  commentCount |-> IntV(200), shareCount |-> IntV(50)])],
                [stats |-> DictV([playCount |-> StrV(<<"a", "b", "c">>)])],
                [text |-> StrV(<<"1", ".", "2", "K", " ", "v", "i", "e", "w", "s", ",", " ", "3", "0", "0", " ", "l", "i", "k", "e", "s">>)]}}

\* Records with a description, music or an itemInfo that is no mapping.
RawTextRecords ==
    { [id |-> StrV(<<"v", "1">>), music |-> DictV([title |-> IntV(5)])],
      [id |-> StrV(<<"v", "1">>), createTime |-> IntV(1700000000), itemInfo |-> NoneV],
      [id |-> IntV(123), desc |-> StrV(<<"#", "a", " ", "#", "b", " ", "#", "a", "\n", "x">>),
       music |-> DictV([title |-> StrV(<<"T">>), authorName |-> StrV(<<"A">>)])],
      [desc |-> IntV(5)],
      [itemInfo |-> StrV(<<"i", "t", "e", "m", "S", "t", "r", "u", "c", "t">>)] }

RawRecords == RawStatRecords \cup RawVideoRecords \cup RawTextRecords

\* Thresholds handed to is_trending (min_engagement in units of 1/10000).
MinViewsValues == {0, 7, DEFAULT_MIN_VIEWS}
MinEngagementValues == {0, DEFAULT_MIN_ENGAGEMENT, 625}

-----------------------------------------------------------------------------
(* Calls of the normaliser and ranker on one raw record *)

NoResult == [raised |-> FALSE, value |-> EmptyDict]
NoArgs == [min_views |-> 0, min_engagement |-> 0]

SetupIdle ==
    /\ j_pc = "idle"
    /\ j_config = <<>>
    /\ jobs = <<>>

RunnerIdle ==
    /\ running_instances = 0
    /\ r_callers = {}
    /\ r_pc = <<>>
    /\ r_reg = <<>>
    /\ r_call = <<>>
    /\ r_runs = <<>>
    /\ r_history = <<>>

DiscoveryIdle ==
    /\ d_pc = "idle"
    /\ d_max_videos = 0
    /\ d_found = <<>>
    /\ approaches = <<>>
    /\ d_i = 0
    /\ results = <<>>
    /\ best_approach_name = "None"

TextIdle ==
    /\ t_pc = "idle"
    /\ t_text = <<>>
    /\ t_hashtags = <<>>

ScoreIdle ==
    /\ s_pc = "idle"
    /\ s_stats = <<>>
    /\ s_scores = <<>>

ApiIdle ==
    /\ a_pc = "idle"
    /\ a_max = 0
    /\ a_primary = <<>>
    /\ a_json = <<>>
    /\ a_videos = <<>>
    /\ a_playwright = "none"
    /\ a_browser = "none"
    /\ a_returned = <<>>

MainIdle ==
    /\ m_pc = "idle"
    /\ cfg = EmptyDict
    /\ kw_idx = 0
    /\ all_videos = <<>>
    /\ successful_keywords = <<>>
    /\ failed_keywords = <<>>
    /\ discovered = <<>>
    /\ exported = <<>>
    /\ sample_videos = <<>>

ParserInit ==
    /\ p_pc = "input"
    /\ raw_video \in RawRecords
    /\ stats_result = NoResult
    /\ trend_args = NoArgs
    /\ trend_result = FALSE
    /\ video_result = NoResult
    /\ ts_result = NoResult
    /\ MainIdle
    /\ ApiIdle
    /\ ScoreIdle
    /\ TextIdle
    /\ DiscoveryIdle
    /\ RunnerIdle
    /\ SetupIdle

\* stats = extract_statistics(raw_video)
ExtractStatistics ==
    /\ p_pc = "input"
    /\ stats_result' = extract_statistics(raw_video)
    /\ p_pc' = "stats"
    /\ UNCHANGED <<raw_video, trend_args, trend_result, video_result, ts_result, m_vars, a_vars, s_vars, t_vars, d_vars, r_vars, j_vars>>

\* is_trending(stats, min_views, min_engagement) on the statistics returned
IsTrending ==
    /\ p_pc = "stats"
    /\ ~stats_result.raised
    /\ \E mv \in MinViewsValues, me \in MinEngagementValues :
          /\ trend_args' = [min_views |-> mv, min_engagement |-> me]
          /\ trend_result' = is_trending(stats_result.value, mv, me)
    /\ p_pc' = "trending"
    /\ UNCHANGED <<raw_video, stats_result, video_result, ts_result, m_vars, a_vars, s_vars, t_vars, d_vars, r_vars, j_vars>>

\* video = parse_video_data(raw_video, keyword)
ParseVideoData ==
    /\ p_pc = "input"
    /\ video_result' = parse_video_data(raw_video, "keyword")
    /\ p_pc' = "parsed"
    /\ UNCHANGED <<raw_video, stats_result, trend_args, trend_result, ts_result, m_vars, a_vars, s_vars, t_vars, d_vars, r_vars, j_vars>>

\* timestamp = extract_timestamp(raw_video)
ExtractTimestamp ==
    /\ p_pc = "input"
    /\ ts_result' = extract_timestamp(raw_video)
    /\ p_pc' = "timestamp"
    /\ UNCHANGED <<raw_video, stats_result, trend_args, trend_result, video_result,
                   m_vars, a_vars, s_vars, t_vars, d_vars, r_vars, j_vars>>

ParserNext == ExtractStatistics \/ IsTrending \/ ParseVideoData \/ ExtractTimestamp

SpecParser == ParserInit /\ [][ParserNext]_vars

-----------------------------------------------------------------------------
(* Properties of the normaliser and ranker, under SpecParser *)

\* C1: is_trending(stats, min_views, min_engagement) returns true exactly
\* when stats.view_count >= min_views and stats.engagement_rate >=
\* min_engagement, and false as soon as either value is below its threshold.
C1_TrendingIffBothThresholds ==
    p_pc = "trending" =>
        (trend_result <=>
            (/\ stats_result.value.view_count >= trend_args.min_views
             /\ stats_result.value.engagement_rate >= trend_args.min_engagement))

\* A call that answered true against two positive thresholds, the rate
\* being exactly the threshold.
C1_Witness ==
    /\ p_pc = "trending"
    /\ trend_result
    /\ trend_args.min_views = DEFAULT_MIN_VIEWS
    /\ trend_args.min_engagement = 625
    /\ stats_result.value.view_count = 20000
    /\ stats_result.value.engagement_rate = 625

\* C2: for every statistics record with view_count = 0, is_trending returns
\* false for every choice of thresholds, min_views = 0 and
\* min_engagement = 0 included.
C2_ZeroViewsNeverTrending ==
    (p_pc = "trending" /\ stats_result.value.view_count = 0) => ~trend_result

\* C3: parse_video_data never raises: for every raw record it returns a
\* record, and when an internal step (here the statistics extraction) fails
\* it returns the minimal record with all four counts 0 and is_trending
\* false.
C3_ParseNeverRaises ==
    p_pc = "parsed" =>
        /\ ~video_result.raised
        /\ extract_statistics(raw_video).raised =>
              /\ video_result.value.statistics.view_count = 0
              /\ video_result.value.statistics.like_count = 0
              /\ video_result.value.statistics.comment_count = 0
              /\ video_result.value.statistics.share_count = 0
              /\ ~video_result.value.is_trending

\* C4: when a value under stats.playCount, stats.diggCount,
\* stats.commentCount or stats.shareCount is present but does not convert
\* to an integer, extract_statistics treats it as absent: it does not fail.
C4_NonCoercibleTreatedAsAbsent ==
    (/\ p_pc = "stats"
     /\ "stats" \in DOMAIN raw_video
     /\ raw_video.stats.t = "dict"
     /\ \E k \in DOMAIN raw_video.stats.d : int(raw_video.stats.d[k]).raised)
    => ~stats_result.raised

\* C5: the statistics extract_statistics returns contain view_count,
\* like_count, comment_count and share_count, each a non-negative integer,
\* whatever values, negative ones included, the raw record carries.
C5_CountsNonNegative ==
    (p_pc = "stats" /\ ~stats_result.raised) =>
        /\ {"view_count", "like_count", "comment_count", "share_count"}
               \subseteq DOMAIN stats_result.value
        /\ stats_result.value.view_count \in Nat
        /\ stats_result.value.like_count \in Nat
        /\ stats_result.value.comment_count \in Nat
        /\ stats_result.value.share_count \in Nat

\* C6: without structured statistics the text fallback multiplies a number
\* by 1000 for a K suffix and by 1000000 for an M suffix: the text
\* '1.2K views, 300 likes' gives views = 1200, likes = 300, comments = 0
\* and engagement_rate = 0.25.
C6_TextFallbackAppliesSuffix ==
    (/\ p_pc = "stats"
     /\ raw_video = [text |-> StrV(<<"1", ".", "2", "K", " ", "v", "i", "e", "w", "s", ",",
                                     " ", "3", "0", "0", " ", "l", "i", "k", "e", "s">>)])
    => /\ ~stats_result.raised
       /\ stats_result.value.view_count = 1200
       /\ stats_result.value.like_count = 300
       /\ stats_result.value.comment_count = 0
       /\ stats_result.value.engagement_rate = 2500

\* C13: extract_timestamp gives a createTime in unix seconds and the same
\* instant in unix milliseconds the same ISO instant: createTime 1700000000
\* and createTime 1700000000000 give equal results.
C13_SecondsAndMillisecondsAgree ==
    (p_pc = "timestamp" /\ raw_video = [createTime |-> IntV(1700000000)]) =>
        /\ ~ts_result.raised
        /\ ts_result = extract_timestamp([createTime |-> ScaledIntV(1700000000, 1000)])

\* C14: for every raw record that has no 'stats', no 'itemInfo' and no
\* numeric count field, extract_statistics returns views = likes =
\* comments = shares = 0, and the record parse_video_data builds from it
\* has is_trending false.
C14_NoStatisticsGivesZeros ==
    ({"stats", "itemInfo", "playCount", "play_count", "views", "viewCount"}
        \cap DOMAIN raw_video = {})
    => /\ p_pc = "stats" =>
             /\ ~stats_result.raised
             /\ stats_result.value.view_count = 0
             /\ stats_result.value.like_count = 0
             /\ stats_result.value.comment_count = 0
             /\ stats_result.value.share_count = 0
       /\ p_pc = "parsed" =>
             /\ ~video_result.raised
             /\ ~video_result.value.is_trending

\* rate, in units of 1/10000, is engagement / views to the nearest unit.
WithinHalfUnit(rate, engagement, views) ==
    /\ 2 * (rate * views - engagement * 10000) <= views
    /\ 2 * (engagement * 10000 - rate * views) <= views

\* C15: a raw record that carries its counts in a 'stats' mapping gives the
\* same statistics whether 'stats' is at the top level or nested under
\* itemInfo.itemStruct: views v, likes l, comments c, shares s and
\* engagement_rate (l+c+s)/v; with 20000, 1000, 200, 50 and the thresholds
\* 10000 and 0.05 the record is trending.
C15_TopLevelAndNestedStatsAgree ==
    /\ (p_pc = "stats" /\ DOMAIN raw_video = {"stats"} /\ raw_video.stats.t = "dict") =>
          /\ stats_result = extract_statistics(NestedUnderItemStruct(raw_video.stats))
          /\ (~stats_result.raised /\ stats_result.value.view_count > 0) =>
                /\ stats_result.value.view_count
                       = int(Get(raw_video.stats.d, "playCount", IntV(0))).value
                /\ stats_result.value.like_count
                       = int(Get(raw_video.stats.d, "diggCount", IntV(0))).value
                /\ stats_result.value.comment_count
                       = int(Get(raw_video.stats.d, "commentCount", IntV(0))).value
                /\ stats_result.value.share_count
                       = int(Get(raw_video.stats.d, "shareCount", IntV(0))).value
                /\ WithinHalfUnit(stats_result.value.engagement_rate,
                                  stats_result.value.like_count
                                  + stats_result.value.comment_count
                                  + stats_result.value.share_count,
                                  stats_result.value.view_count)
    /\ (/\ p_pc = "trending"
        /\ trend_args = [min_views |-> DEFAULT_MIN_VIEWS,
                         min_engagement |-> DEFAULT_MIN_ENGAGEMENT]
        /\ \/ raw_video = [stats |-> DictV([playCount |-> IntV(20000),
                               diggCount |-> IntV(1000), commentCount |-> IntV(200),
                               shareCount |-> IntV(50)])]
           \/ raw_video = NestedUnderItemStruct(DictV([playCount |-> IntV(20000),
                               diggCount |-> IntV(1000), commentCount |-> IntV(200),
                               shareCount |-> IntV(50)])))
       => trend_result

\* The nested form of the example was found trending with rate 0.0625.
C15_Witness ==
    /\ p_pc = "trending"
    /\ raw_video = NestedUnderItemStruct(DictV([playCount |-> IntV(20000),
                       diggCount |-> IntV(1000), commentCount |-> IntV(200),
                       shareCount |-> IntV(50)]))
    /\ trend_args = [min_views |-> DEFAULT_MIN_VIEWS,
                     min_engagement |-> DEFAULT_MIN_ENGAGEMENT]
    /\ stats_result.value.view_count = 20000
    /\ stats_result.value.share_count = 50
    /\ stats_result.value.engagement_rate = 625
    /\ trend_result

\* C17: for each attribute the normaliser uses the first candidate key
\* whose value is present and usable and moves on to the next candidate
\* otherwise: a record with id = null and videoId = 123 is parsed to a video
\* whose video_id is 123, and a record whose 'stats' has no playCount while
\* 'views' carries 9 gets view_count 9.
C17_LaterCandidateResolves ==
    /\ (/\ p_pc = "parsed"
        /\ {"id", "videoId"} \subseteq DOMAIN raw_video
        /\ raw_video.id = NoneV
        /\ raw_video.videoId = IntV(123))
       => /\ ~video_result.raised
          /\ video_result.value.video_id = IntV(123)
    /\ (/\ p_pc = "stats"
        /\ {"stats", "views"} \subseteq DOMAIN raw_video
        /\ raw_video.stats.t = "dict"
        /\ "playCount" \notin DOMAIN raw_video.stats.d
        /\ raw_video.views = IntV(9)
        /\ ~stats_result.raised)
       => stats_result.value.view_count = 9

\* C19: for a raw record with an id and no url field parse_video_data
\* builds video_url from the record's resolved author handle and its id, so
\* a record with the same id, no url field and another author gets another
\* url.
C19_UrlFromAuthorAndId ==
    (/\ p_pc = "parsed"
     /\ "id" \in DOMAIN raw_video
     /\ Truthy(raw_video.id)
     /\ {"url", "shareUrl", "share_url", "webVideoUrl"} \cap DOMAIN raw_video = {})
    => /\ ~video_result.raised
       /\ \A other \in RawVideoRecords :
             (/\ "id" \in DOMAIN other
              /\ other.id = raw_video.id
              /\ ~parse_video_data(other, "keyword").raised
              /\ parse_video_data(other, "keyword").value.author
                    # video_result.value.author)
             => parse_video_data(other, "keyword").value.video_url
                    # video_result.value.video_url

\* C26: rounding the stored engagement_rate to 4 decimal places never
\* changes the trending decision: for the statistics extract_statistics
\* returns and every threshold, is_trending is true only if the exact ratio
\* (likes + comments + shares) / views is at least min_engagement.
C26_RoundingKeepsDecision ==
    (/\ p_pc = "trending"
     /\ stats_result.value.view_count > 0
     /\ trend_result)
    => (stats_result.value.like_count + stats_result.value.comment_count
          + stats_result.value.share_count) * 10000
       >= trend_args.min_engagement * stats_result.value.view_count

-----------------------------------------------------------------------------
(* main(): the keyword loop in browser mode *)

MIN_VIEWS == 10000
MIN_ENGAGEMENT_RATE == 500    \* 0.05 in units of 1/10000
batch_size == 2

NumKeywords == 2          \* len(KEYWORDS)
MaxRawPerKeyword == 2     \* most raw videos one discovery returns
MaxTotalVideos == 2       \* largest configured MAX_TOTAL_VIDEOS

KEYWORDS == [i \in 1..NumKeywords |-> i]

\* Settings of the two thresholds: the shipped ones and a higher one each.
MinViewsSettings == {MIN_VIEWS, 25000}
MinEngagementSettings == {MIN_ENGAGEMENT_RATE, 600}

\* The configurations main may import: the switches, the limit and the
\* thresholds.
Configs ==
    [SORT_BY_PERFORMANCE : BOOLEAN, TRENDING_ONLY : BOOLEAN,
     MAX_TOTAL_VIDEOS : 0..MaxTotalVideos,
     MIN_VIEWS : MinViewsSettings, MIN_ENGAGEMENT_RATE : MinEngagementSettings,
     SAVE_JSON : BOOLEAN, SAVE_CSV : BOOLEAN, UPDATE_GOOGLE_SHEETS : BOOLEAN]

\* Raw videos a discovery may return: one with an engagement of 0.0625 of
\* its 20000 views, one with 7 views, one whose statistics do not convert,
\* and one with an engagement of 1499 on 30000 views, just under 0.05.
RawPool ==
    { [stats |-> DictV([playCount |-> IntV(20000), diggCount |-> IntV(1000),
                        commentCount |-> IntV(200), shareCount |-> IntV(50)])],
      [stats |-> DictV([playCount |-> IntV(7), diggCount |-> IntV(1000)])],
      [stats |-> DictV([playCount |-> StrV(<<"a", "b", "c">>)])],
      [stats |-> DictV([playCount |-> IntV(30000), diggCount |-> IntV(1499)])] }

\* discover_videos(browser, keyword, MAX_VIDEOS_PER_KEYWORD): the lists it
\* may return.  Each raw video carries its own id.
DiscoveredBatches(keyword) ==
    UNION {{[i \in 1..n |-> [id |-> IntV(keyword * 10 + i)] @@ f[i]] :
               f \in [1..n -> RawPool]} : n \in 0..MaxRawPerKeyword}

\* extract_video_data(raw_video, keyword): the basic record of the video.
extract_video_data(raw, keyword) == [keyword |-> keyword, video_id |-> raw.id.n]

\* The key of both sorts: the stored performance_score, 0 without one.
SortKey(x) ==
    IF "statistics" \in DOMAIN x /\ "performance_score" \in DOMAIN x.statistics
    THEN x.statistics.performance_score
    ELSE 0

\* A variant of the insertion that places x in front of the elements whose
\* key equals its own (`>` written for `>=`): a sort that is not stable.
RECURSIVE SortedInsertBeforeEqual(_, _)
SortedInsertBeforeEqual(sorted, x) ==
    IF sorted = <<>> THEN <<x>>
    ELSE IF SortKey(sorted[Len(sorted)]) > SortKey(x) THEN Append(sorted, x)
    ELSE Append(SortedInsertBeforeEqual(SubSeq(sorted, 1, Len(sorted) - 1), x),
                sorted[Len(sorted)])

\* x placed behind every element whose key is at least its own.
RECURSIVE SortedInsert(_, _)
SortedInsert(sorted, x) ==
    IF sorted = <<>> THEN <<x>>
    ELSE IF SortKey(sorted[Len(sorted)]) >= SortKey(x) THEN Append(sorted, x)
    ELSE Append(SortedInsert(SubSeq(sorted, 1, Len(sorted) - 1), x), sorted[Len(sorted)])

\* list.sort(key = SortKey, reverse = True): descending, and stable.
RECURSIVE SortByPerformance(_)
SortByPerformance(videos) ==
    IF videos = <<>> THEN <<>>
    ELSE SortedInsert(SortByPerformance(SubSeq(videos, 1, Len(videos) - 1)),
                      videos[Len(videos)])

\* video_data['statistics'] = stats; the score calculate_performance_score
\* returns for stats is stored in it; is_trending(stats, MIN_VIEWS,
\* MIN_ENGAGEMENT_RATE) is stored.
BuildVideo(video_data, stats, config) ==
    [statistics |-> ("performance_score" :> calculate_performance_score(stats)) @@ stats,
     is_trending |-> is_trending(stats, config.MIN_VIEWS, config.MIN_ENGAGEMENT_RATE)]
    @@ video_data

\* if TRENDING_ONLY and not video_is_trending: continue
FilterVideo(video, config) ==
    IF config.TRENDING_ONLY /\ ~video.is_trending THEN <<>> ELSE <<video>>

\* The try block of one raw video; an exception is logged and the video
\* is left out.
KeepVideo(video_data, stats, config) ==
    IF stats.raised THEN <<>>
    ELSE FilterVideo(BuildVideo(video_data, stats.value, config), config)

\* The raw videos discover_videos may return, over all keywords.
DiscoveredVideos ==
    {[id |-> IntV(k * 10 + i)] @@ r :
        k \in 1..NumKeywords, i \in 1..MaxRawPerKeyword, r \in RawPool}

\* extract_statistics on each of them, worked out once for all runs.
DiscoveredStatistics == [raw \in DiscoveredVideos |-> extract_statistics(raw)]

\* stats = extract_statistics(raw_video)
StatisticsOf(raw) ==
    IF raw \in DiscoveredVideos THEN DiscoveredStatistics[raw]
    ELSE extract_statistics(raw)

ProcessVideo(raw, keyword, config) ==
    KeepVideo(extract_video_data(raw, keyword), StatisticsOf(raw), config)

\* The loop over raw_videos: keyword_videos in discovery order.
RECURSIVE ProcessVideos(_, _, _)
ProcessVideos(raw_videos, keyword, config) ==
    IF raw_videos = <<>> THEN <<>>
    ELSE ProcessVideo(Head(raw_videos), keyword, config)
         \o ProcessVideos(Tail(raw_videos), keyword, config)

\* if SORT_BY_PERFORMANCE and keyword_videos: keyword_videos.sort(...)
SortKeywordVideos(keyword_videos, config) ==
    IF config.SORT_BY_PERFORMANCE /\ keyword_videos # <<>>
    THEN SortByPerformance(keyword_videos)
    ELSE keyword_videos

\* The limit after the loop: sort all videos and keep the first
\* MAX_TOTAL_VIDEOS when there are more than that.
LimitVideos(videos, config) ==
    IF config.MAX_TOTAL_VIDEOS > 0 /\ Len(videos) > config.MAX_TOTAL_VIDEOS
    THEN SubSeq(SortByPerformance(videos), 1, config.MAX_TOTAL_VIDEOS)
    ELSE videos

\* The id of a collected video: a scraped video's video_id, a sample
\* video's id.
VideoId(video) == IF "video_id" \in DOMAIN video THEN video.video_id ELSE video.id

VideoIds(videos) == [i \in 1..Len(videos) |-> VideoId(videos[i])]

\* The exporters main calls after the limit, in order: save_to_json when
\* SAVE_JSON, save_to_csv when SAVE_CSV, export_trending_report, and
\* update_google_sheet when UPDATE_GOOGLE_SHEETS.
Exporters(config) ==
    (IF config.SAVE_JSON THEN <<"save_to_json">> ELSE <<>>)
    \o (IF config.SAVE_CSV THEN <<"save_to_csv">> ELSE <<>>)
    \o <<"export_trending_report">>
    \o (IF config.UPDATE_GOOGLE_SHEETS THEN <<"update_google_sheet">> ELSE <<>>)

\* The exporters of the NO_BROWSER branch.
SampleExporters(config) ==
    (IF config.SAVE_JSON THEN <<"save_to_json">> ELSE <<>>)
    \o (IF config.SAVE_CSV THEN <<"save_to_csv">> ELSE <<>>)

\* The exporters of `names` at the positions `returned`, each with the
\* collection it was handed.
Exports(names, returned, videos) ==
    [n \in 1..Cardinality(returned) |->
        [exporter |-> names[NthOf(returned, n)], videos |-> videos]]

ParserIdle ==
    /\ p_pc = "idle"
    /\ raw_video = EmptyDict
    /\ stats_result = NoResult
    /\ trend_args = NoArgs
    /\ trend_result = FALSE
    /\ video_result = NoResult
    /\ ts_result = NoResult

MainInit ==
    /\ m_pc = "start"
    /\ cfg \in Configs
    /\ kw_idx = 0
    /\ all_videos = <<>>
    /\ successful_keywords = <<>>
    /\ failed_keywords = <<>>
    /\ discovered = <<>>
    /\ exported = <<>>
    /\ sample_videos = <<>>
    /\ ParserIdle
    /\ ApiIdle
    /\ ScoreIdle
    /\ TextIdle
    /\ DiscoveryIdle
    /\ RunnerIdle
    /\ SetupIdle

\* use_no_browser: the NO_BROWSER environment switch, or playwright failing
\* to import; then main generates sample data instead of scraping.  It
\* first creates the output directory, or the fallback directory `data`;
\* when that cannot be created either the exception leaves main.
CheckNoBrowser ==
    /\ m_pc = "start"
    /\ \/ m_pc' = "batch"
       \/ m_pc' = "sample"
       \/ m_pc' = "raised"
    /\ UNCHANGED <<cfg, kw_idx, all_videos, successful_keywords, failed_keywords,
                   discovered, exported, sample_videos, p_vars, a_vars, s_vars, t_vars, d_vars, r_vars, j_vars>>

\* generate_sample_data(keyword, count=5) is called with count = 5.
SampleCount == 5

\* The random statistics of one sample video: views = randint(10000,
\* 1000000), likes = int(views * uniform(0.05, 0.2)), comments =
\* int(likes * uniform(0.01, 0.1)), shares = int(likes * uniform(0.01, 0.05)).
SampleStats ==
    { [views |-> 10000, likes |-> 500, comments |-> 5, shares |-> 5],
      [views |-> 1000000, likes |-> 200000, comments |-> 20000, shares |-> 10000] }

\* The draws of one call: which statistics each of the videos gets.
SampleDraws ==
    { [i \in 1..SampleCount |-> lo] : lo \in SampleStats }
    \cup { [i \in 1..SampleCount |-> IF i % 2 = 1 THEN lo ELSE hi] :
               lo \in SampleStats, hi \in SampleStats }

\* The record generate_sample_data builds for video i; its
\* performance_score (views + likes*2 + comments*3 + shares*4) / 1000 is
\* held in units of 1/1000.
SampleVideo(keyword, i, st) ==
    [id |-> <<"sample", keyword, i>>,    \* f"sample_{keyword}_{i}_{time}"
     keyword |-> keyword,
     statistics |-> [views |-> st.views, likes |-> st.likes, comments |-> st.comments,
                     shares |-> st.shares,
                     performance_score |->
                         st.views + st.likes * 2 + st.comments * 3 + st.shares * 4],
     is_trending |-> TRUE]

generate_sample_data(keyword, draw) ==
    [i \in 1..SampleCount |-> SampleVideo(keyword, i - 1, draw[i])]

\* all_videos.extend(sample_videos)
AddSampleVideos(videos) ==
    /\ sample_videos' = sample_videos \o videos
    /\ discovered' = discovered \o VideoIds(videos)

\* One turn of the loop `for keyword in KEYWORDS` of the NO_BROWSER branch:
\* all_videos.extend(sample_videos); successful_keywords.append(keyword).
GenerateSampleData ==
    /\ m_pc = "sample"
    /\ \E draw \in SampleDraws :
          AddSampleVideos(generate_sample_data(KEYWORDS[kw_idx + 1], draw))
    /\ successful_keywords' = Append(successful_keywords, KEYWORDS[kw_idx + 1])
    /\ kw_idx' = kw_idx + 1
    /\ m_pc' = (IF kw_idx + 1 = NumKeywords THEN "sample_save" ELSE "sample")
    /\ UNCHANGED <<cfg, all_videos, failed_keywords, exported, p_vars, a_vars, s_vars, t_vars, d_vars, r_vars, j_vars>>

\* The saving of the NO_BROWSER branch, then `return`: save_to_json when
\* SAVE_JSON and save_to_csv when SAVE_CSV, each handed all the sample
\* videos inside a try of its own, so that one that raises is logged and
\* the other is still called.
SaveSampleData ==
    /\ m_pc = "sample_save"
    /\ \E returned \in SUBSET (1..Len(SampleExporters(cfg))) :
          exported' = Exports(SampleExporters(cfg), returned, sample_videos)
    /\ m_pc' = "sample_done"
    /\ UNCHANGED <<cfg, kw_idx, all_videos, successful_keywords, failed_keywords,
                   discovered, sample_videos, p_vars, a_vars, s_vars, t_vars, d_vars, r_vars, j_vars>>

\* browser = StealthBrowser(...) at the head of a batch; an exception
\* leaves the loops for main's outer except clause.
StartBatch ==
    /\ m_pc = "batch"
    /\ \/ m_pc' = "keyword"
       \/ m_pc' = "aborted"
    /\ UNCHANGED <<cfg, kw_idx, all_videos, successful_keywords, failed_keywords,
                   discovered, exported, sample_videos, p_vars, a_vars, s_vars, t_vars, d_vars, r_vars, j_vars>>

AfterKeyword(done) ==
    IF done % batch_size = 0 \/ done = NumKeywords THEN "close" ELSE "keyword"

\* discover_videos raised, or returned nothing: the keyword has failed.
KeywordFails ==
    /\ m_pc = "keyword"
    /\ failed_keywords' = Append(failed_keywords, KEYWORDS[kw_idx + 1])
    /\ kw_idx' = kw_idx + 1
    /\ m_pc' = AfterKeyword(kw_idx + 1)
    /\ UNCHANGED <<cfg, all_videos, successful_keywords, discovered, exported, sample_videos, p_vars, a_vars, s_vars, t_vars, d_vars, r_vars, j_vars>>

\* all_videos.extend(keyword_videos), after the keyword's sort.
AddKeywordVideos(keyword_videos) ==
    /\ all_videos' = all_videos \o SortKeywordVideos(keyword_videos, cfg)
    /\ discovered' = discovered \o VideoIds(keyword_videos)

\* discover_videos returned raw videos: each is processed, the keyword's
\* videos are sorted when configured and added to all_videos.
KeywordSucceeds ==
    /\ m_pc = "keyword"
    /\ \E raw_videos \in DiscoveredBatches(KEYWORDS[kw_idx + 1]) :
          /\ raw_videos # <<>>
          /\ AddKeywordVideos(ProcessVideos(raw_videos, KEYWORDS[kw_idx + 1], cfg))
    /\ successful_keywords' = Append(successful_keywords, KEYWORDS[kw_idx + 1])
    /\ kw_idx' = kw_idx + 1
    /\ m_pc' = AfterKeyword(kw_idx + 1)
    /\ UNCHANGED <<cfg, failed_keywords, exported, sample_videos, p_vars, a_vars, s_vars, t_vars, d_vars, r_vars, j_vars>>

\* finally: browser.close()
CloseBrowser ==
    /\ m_pc = "close"
    /\ \/ m_pc' = (IF kw_idx = NumKeywords THEN "limit" ELSE "batch")
       \/ m_pc' = "aborted"
    /\ UNCHANGED <<cfg, kw_idx, all_videos, successful_keywords, failed_keywords,
                   discovered, exported, sample_videos, p_vars, a_vars, s_vars, t_vars, d_vars, r_vars, j_vars>>

\* The limit, then `if not all_videos: return`.
LimitTotal ==
    /\ m_pc = "limit"
    /\ all_videos' = LimitVideos(all_videos, cfg)
    /\ m_pc' = (IF all_videos = <<>> THEN "done" ELSE "save")
    /\ UNCHANGED <<cfg, kw_idx, successful_keywords, failed_keywords, discovered,
                   exported, sample_videos, p_vars, a_vars, s_vars, t_vars, d_vars, r_vars, j_vars>>

\* The saving of the browser path: output_dir.mkdir(...), then the
\* exporters one after the other, each handed all_videos.  The first n of
\* them return; when n is not all of them the next one raised (for n = 0,
\* that one or mkdir) and the exception went to main's outer except clause,
\* with the later exporters not called.
SaveResults ==
    /\ m_pc = "save"
    /\ \E n \in 0..Len(Exporters(cfg)) :
          /\ exported' = Exports(Exporters(cfg), 1..n, all_videos)
          /\ m_pc' = (IF n = Len(Exporters(cfg)) THEN "done" ELSE "aborted")
    /\ UNCHANGED <<cfg, kw_idx, all_videos, successful_keywords, failed_keywords,
                   discovered, sample_videos, p_vars, a_vars, s_vars, t_vars, d_vars, r_vars, j_vars>>

MainNext ==
    \/ CheckNoBrowser \/ GenerateSampleData \/ SaveSampleData
    \/ StartBatch \/ KeywordFails \/ KeywordSucceeds \/ CloseBrowser \/ LimitTotal \/ SaveResults

SpecMain == MainInit /\ [][MainNext]_vars

-----------------------------------------------------------------------------
(* Properties of main's results, under SpecMain *)

\* C7: every video record's stored engagement_rate and performance_score
\* are the values computed from that record's final view, like, comment and
\* share counts, also after main's per-video processing.
C7_StoredMetricsFromFinalCounts ==
    \A i \in 1..Len(all_videos) :
        /\ all_videos[i].statistics.engagement_rate =
              EngagementRate(all_videos[i].statistics.view_count,
                             all_videos[i].statistics.like_count,
                             all_videos[i].statistics.comment_count,
                             all_videos[i].statistics.share_count)
        /\ all_videos[i].statistics.performance_score =
              MetricsScore(all_videos[i].statistics.view_count,
                           all_videos[i].statistics.like_count,
                           all_videos[i].statistics.comment_count,
                           all_videos[i].statistics.share_count)

\* C8: when SORT_BY_PERFORMANCE is set, every sequence of videos main hands
\* to an exporter has non-increasing performance_score from first to last,
\* whether or not the total exceeds MAX_TOTAL_VIDEOS.
C8_ExportNonIncreasing ==
    cfg.SORT_BY_PERFORMANCE =>
        \A e \in DOMAIN exported : \A i \in 1..(Len(exported[e].videos) - 1) :
            exported[e].videos[i].statistics.performance_score
                >= exported[e].videos[i + 1].statistics.performance_score

\* The place of a collected video in the order of discovery.
DiscoveryIndex(video) ==
    CHOOSE a \in 1..Len(discovered) : discovered[a] = VideoId(video)

\* Videos with equal sort keys stand in the order of their discovery.
EqualKeysInDiscoveryOrder(videos) ==
    \A i \in 1..Len(videos) : \A j \in (i + 1)..Len(videos) :
        SortKey(videos[i]) = SortKey(videos[j]) =>
            DiscoveryIndex(videos[i]) < DiscoveryIndex(videos[j])

\* Lists of up to three videos for the sort, the video at place i with
\* video_id i: each with a stored performance_score of 0, 8.6 or 1430.26
\* (in units of 1/100), or with no statistics at all (key 0).
ScoredLists ==
    UNION {{[i \in 1..n |->
                IF scores[i] = -1 THEN [video_id |-> i]
                ELSE [video_id |-> i, statistics |-> [performance_score |-> scores[i]]]] :
            scores \in [1..n -> {-1, 0, 860, 143026}]} : n \in 0..3}

\* `sorted` holds the videos of `videos`, each once, with non-increasing
\* keys, and those with equal keys in the order they have in `videos`.
StableDescending(videos, sorted) ==
    /\ Len(sorted) = Len(videos)
    /\ \A i \in 1..Len(sorted) :
          sorted[i].video_id \in 1..Len(videos) /\ sorted[i] = videos[sorted[i].video_id]
    /\ \A i \in 1..Len(sorted) : \A j \in (i + 1)..Len(sorted) :
          \/ SortKey(sorted[i]) > SortKey(sorted[j])
          \/ SortKey(sorted[i]) = SortKey(sorted[j]) /\ sorted[i].video_id < sorted[j].video_id

\* list.sort(key, reverse=True) on every list of ScoredLists.
SortIsStableOnScoredLists ==
    \A videos \in ScoredLists : StableDescending(videos, SortByPerformance(videos))

\* C9: sorting by performance is stable: two videos with equal
\* performance_score stand in the order in which they were discovered,
\* after the per-keyword sort (all_videos) and after the final sort (every
\* collection handed to an exporter); and the sort itself, on lists whose
\* scores differ, orders by descending score and keeps equal scores in
\* input order.
C9_SortIsStable ==
    /\ SortIsStableOnScoredLists
    /\ EqualKeysInDiscoveryOrder(all_videos)
    /\ \A e \in DOMAIN exported : EqualKeysInDiscoveryOrder(exported[e].videos)

\* save_to_json has returned, and a later exporter raised, with two videos
\* of one keyword that have equal scores and were sorted by the keyword's
\* sort and again, with the videos of the other keyword, by the final sort
\* before the limit cut the list.
C9_Witness ==
    /\ m_pc = "aborted"
    /\ cfg.SORT_BY_PERFORMANCE
    /\ cfg.MAX_TOTAL_VIDEOS > 0
    /\ Len(discovered) > cfg.MAX_TOTAL_VIDEOS
    /\ Len(successful_keywords) = NumKeywords
    /\ exported # <<>>
    /\ exported[1].exporter = "save_to_json"
    /\ Len(exported[1].videos) >= 2
    /\ exported[1].videos[1].keyword = exported[1].videos[2].keyword
    /\ exported[1].videos[1].video_id # exported[1].videos[2].video_id
    /\ SortKey(exported[1].videos[1]) = SortKey(exported[1].videos[2])

\* C10: when SORT_BY_PERFORMANCE is not set, limiting only truncates: every
\* sequence main hands to an exporter is the first MAX_TOTAL_VIDEOS videos
\* in discovery order (all of them when there are no more than that, or no
\* limit).
C10_UnsortedLimitOnlyTruncates ==
    ~cfg.SORT_BY_PERFORMANCE =>
        \A e \in DOMAIN exported :
            VideoIds(exported[e].videos) =
                SubSeq(discovered, 1,
                       IF cfg.MAX_TOTAL_VIDEOS > 0 /\ Len(discovered) > cfg.MAX_TOTAL_VIDEOS
                       THEN cfg.MAX_TOTAL_VIDEOS
                       ELSE Len(discovered))

\* C11: whenever MAX_TOTAL_VIDEOS > 0, every collection main hands to the
\* exporters contains at most MAX_TOTAL_VIDEOS videos, in browser mode and
\* in NO_BROWSER (sample data) mode.
C11_ExportWithinLimit ==
    cfg.MAX_TOTAL_VIDEOS > 0 =>
        \A e \in DOMAIN exported : Len(exported[e].videos) <= cfg.MAX_TOTAL_VIDEOS

\* The four counts of a collected video: a scraped video holds them under
\* view_count, like_count, comment_count and share_count, a sample video
\* under views, likes, comments and shares.
CountsOf(video) ==
    IF "view_count" \in DOMAIN video.statistics
    THEN [views |-> video.statistics.view_count,
          engagement |-> video.statistics.like_count + video.statistics.comment_count
                             + video.statistics.share_count]
    ELSE [views |-> video.statistics.views,
          engagement |-> video.statistics.likes + video.statistics.comments
                             + video.statistics.shares]

\* The video's stored flag is set and its counts meet the configured
\* MIN_VIEWS and MIN_ENGAGEMENT_RATE: views >= MIN_VIEWS and
\* engagement / views >= MIN_ENGAGEMENT_RATE.  The rate is held in units of
\* 1/10000 and its settings are multiples of 0.01, so both sides of
\* engagement * 10000 >= rate * views are divided by 100.
MeetsThresholds(video, config) ==
    /\ video.is_trending
    /\ CountsOf(video).views >= config.MIN_VIEWS
    /\ CountsOf(video).engagement * (10000 \div 100)
          >= (config.MIN_ENGAGEMENT_RATE \div 100) * CountsOf(video).views

\* C20: when TRENDING_ONLY is enabled, every video of every collection main
\* exports is trending under the configured MIN_VIEWS and
\* MIN_ENGAGEMENT_RATE, and no video that fails a threshold is in the
\* overall result at any time.
C20_TrendingOnlyExport ==
    cfg.TRENDING_ONLY =>
        /\ \A i \in DOMAIN all_videos : MeetsThresholds(all_videos[i], cfg)
        /\ \A i \in DOMAIN sample_videos : MeetsThresholds(sample_videos[i], cfg)
        /\ \A e \in DOMAIN exported : \A i \in DOMAIN exported[e].videos :
              MeetsThresholds(exported[e].videos[i], cfg)

\* C28: after main's browser-mode keyword loop is over, every configured
\* keyword appears exactly once in exactly one of successful_keywords and
\* failed_keywords, whatever mix of empty discoveries, per-keyword
\* exceptions and browser start failures occurred.
C28_KeywordsPartitioned ==
    m_pc \in {"limit", "save", "done", "aborted"} =>
        \A k \in 1..NumKeywords :
            Cardinality({i \in DOMAIN successful_keywords : successful_keywords[i] = KEYWORDS[k]})
            + Cardinality({i \in DOMAIN failed_keywords : failed_keywords[i] = KEYWORDS[k]})
            = 1

-----------------------------------------------------------------------------
(* tiktok_api.get_videos_for_tag: one call *)

MaxPrimary == 2      \* most videos parsed from the discovered elements
MaxBackup == 2       \* most videos extracted from the page's JSON

Urls == {"u1", "u2", "u3"}

\* Sequences over S of length at most n; those without a repeated element.
SeqsUpTo(S, n) == UNION {[1..k -> S] : k \in 0..n}
DistinctSeqsUpTo(S, n) ==
    {q \in SeqsUpTo(S, n) : \A i, j \in 1..Len(q) : q[i] = q[j] => i = j}

\* parse_video_data(page, video_elements, content, keyword) keeps the
\* videos that have a url; two elements may show the same video.
PrimaryLists ==
    {[i \in 1..Len(q) |-> [url |-> q[i], source |-> "element", position |-> i]] :
        q \in SeqsUpTo({"u1", "u2"}, MaxPrimary)}

\* extract_videos_from_json builds one video per key of ItemModule, its url
\* from the author id and the key: no url twice.
JsonLists ==
    {[i \in 1..Len(q) |-> [url |-> q[i], source |-> "json", position |-> i]] :
        q \in DistinctSeqsUpTo(Urls, MaxBackup)}

MaxVideosValues == {1, 2, 5}

UrlsOf(videos) == {videos[i].url : i \in 1..Len(videos)}

\* A variant of the merge that appends every backup video (the test
\* `jv["url"] not in existing_urls` left out).
RECURSIVE MergeEveryBackup(_, _, _)
MergeEveryBackup(videos, existing_urls, json_videos) ==
    IF json_videos = <<>> THEN videos
    ELSE MergeEveryBackup(Append(videos, Head(json_videos)),
                          existing_urls \cup {Head(json_videos).url}, Tail(json_videos))

\* for jv in json_videos: if jv["url"] not in existing_urls:
\*     videos.append(jv); existing_urls.add(jv["url"])
RECURSIVE MergeBackup(_, _, _)
MergeBackup(videos, existing_urls, json_videos) ==
    IF json_videos = <<>> THEN videos
    ELSE IF Head(json_videos).url \notin existing_urls
         THEN MergeBackup(Append(videos, Head(json_videos)),
                          existing_urls \cup {Head(json_videos).url}, Tail(json_videos))
         ELSE MergeBackup(videos, existing_urls, Tail(json_videos))

\* Lines 81-93: the backup is tried when fewer than max_videos * 0.5 videos
\* were parsed, and merged when it is not empty.
WithBackup(videos, json_videos, max_videos) ==
    IF Len(videos) * 2 < max_videos /\ json_videos # <<>>
    THEN MergeBackup(videos, UrlsOf(videos), json_videos)
    ELSE videos

\* The end of the slice xs[:stop] of a list of n elements: a negative stop
\* counts from the end of the list.
SliceEnd(n, stop) ==
    IF stop < 0 THEN Max(n + stop, 0) ELSE IF n < stop THEN n ELSE stop

\* A variant of the limit that keeps one video more (the slice written as
\* videos[:max_videos + 1]).
LimitToMaxAndOne(videos, max_videos) ==
    SubSeq(videos, 1, SliceEnd(Len(videos), max_videos + 1))

\* videos = videos[:max_videos]
LimitToMax(videos, max_videos) == SubSeq(videos, 1, SliceEnd(Len(videos), max_videos))

ApiInit ==
    /\ a_pc = "call"
    /\ a_max \in MaxVideosValues
    /\ a_primary \in PrimaryLists
    /\ a_json \in JsonLists
    /\ a_videos = <<>>
    /\ a_playwright = "none"
    /\ a_browser = "none"
    /\ a_returned = <<>>
    /\ ParserIdle
    /\ MainIdle
    /\ ScoreIdle
    /\ TextIdle
    /\ DiscoveryIdle
    /\ RunnerIdle
    /\ SetupIdle

\* stealth = StealthBrowser(); await stealth.launch(headless=False).  The
\* call gives way to the event loop at each await of launch, so each is a
\* step; an exception of launch reaches the outer except clause, which
\* returns [].  The call is awaited to its end.
\*
\* self.playwright = await async_playwright().start()
StartPlaywright ==
    /\ a_pc = "call"
    /\ \/ /\ a_playwright' = "started"
          /\ a_pc' = "launch"
       \/ /\ a_pc' = "returned"             \* start() raised
          /\ UNCHANGED a_playwright
    /\ UNCHANGED <<a_max, a_primary, a_json, a_videos, a_browser, a_returned, p_vars,
                   m_vars, s_vars, t_vars, d_vars, r_vars, j_vars>>

\* self.browser = await browser_type.launch(...)
LaunchBrowser ==
    /\ a_pc = "launch"
    /\ \/ /\ a_browser' = "open"
          /\ a_pc' = "context"
       \/ /\ a_pc' = "returned"             \* browser_type.launch raised
          /\ UNCHANGED a_browser
    /\ UNCHANGED <<a_max, a_primary, a_json, a_videos, a_playwright, a_returned, p_vars,
                   m_vars, s_vars, t_vars, d_vars, r_vars, j_vars>>

\* self.context = await self.browser.new_context(...)
NewContext ==
    /\ a_pc = "context"
    /\ \/ a_pc' = "scripts"
       \/ a_pc' = "returned"                \* new_context raised
    /\ UNCHANGED <<a_max, a_primary, a_json, a_videos, a_playwright, a_browser,
                   a_returned, p_vars, m_vars, s_vars, t_vars, d_vars, r_vars, j_vars>>

\* await self._apply_stealth_scripts(), and launch returns.
ApplyStealthScripts ==
    /\ a_pc = "scripts"
    /\ \/ a_pc' = "discover"
       \/ a_pc' = "returned"                \* add_init_script raised
    /\ UNCHANGED <<a_max, a_primary, a_json, a_videos, a_playwright, a_browser,
                   a_returned, p_vars, m_vars, s_vars, t_vars, d_vars, r_vars, j_vars>>

\* Lines 55-72: the page, the route, ContentDiscovery and
\* execute_best_approach; an exception goes to the inner except clause.
DiscoverElements ==
    /\ a_pc = "discover"
    /\ \/ a_pc' = "parse"          \* video_elements is not empty
       \/ a_pc' = "no_elements"    \* video_elements is empty
       \/ a_pc' = "close"          \* an exception
    /\ UNCHANGED <<a_max, a_primary, a_json, a_videos, a_playwright, a_browser,
                   a_returned, p_vars, m_vars, s_vars, t_vars, d_vars, r_vars, j_vars>>

\* Lines 76-79: the page content and the parsed videos; page.content() may
\* raise, parse_video_data returns a list.
ParseElements ==
    /\ a_pc = "parse"
    /\ \/ /\ a_videos' = a_primary
          /\ a_pc' = "merge"
       \/ /\ a_pc' = "close"
          /\ UNCHANGED a_videos
    /\ UNCHANGED <<a_max, a_primary, a_json, a_playwright, a_browser, a_returned,
                   p_vars, m_vars, s_vars, t_vars, d_vars, r_vars, j_vars>>

\* Lines 81-98: the backup, which extract_videos_from_json returns as a
\* list whatever happens, the merge and the limit.
MergeAndLimit ==
    /\ a_pc = "merge"
    /\ a_videos' = LimitToMax(WithBackup(a_videos, a_json, a_max), a_max)
    /\ a_pc' = "parsed"
    /\ UNCHANGED <<a_max, a_primary, a_json, a_playwright, a_browser, a_returned,
                   p_vars, m_vars, s_vars, t_vars, d_vars, r_vars, j_vars>>

\* await stealth.simulate_human_behavior(page), which catches its exceptions.
SimulateHumanBehavior ==
    /\ a_pc \in {"parsed", "no_elements"}
    /\ a_pc' = "close"
    /\ UNCHANGED <<a_max, a_primary, a_json, a_videos, a_playwright, a_browser,
                   a_returned, p_vars, m_vars, s_vars, t_vars, d_vars, r_vars, j_vars>>

\* finally: await stealth.close(), whose one try holds both awaits.
\* await self.browser.close(); when it raises, close logs the error and
\* `return videos` follows.
BrowserClose ==
    /\ a_pc = "close"
    /\ \/ /\ a_browser' = "closed"
          /\ a_pc' = "stop"
          /\ UNCHANGED a_returned
       \/ /\ a_pc' = "returned"             \* browser.close() raised
          /\ a_returned' = a_videos
          /\ UNCHANGED a_browser
    /\ UNCHANGED <<a_max, a_primary, a_json, a_videos, a_playwright, p_vars, m_vars,
                   s_vars, t_vars, d_vars, r_vars, j_vars>>

\* await self.playwright.stop(), the end of close, and `return videos`.
PlaywrightStop ==
    /\ a_pc = "stop"
    /\ \/ a_playwright' = "stopped"
       \/ UNCHANGED a_playwright            \* playwright.stop() raised
    /\ a_returned' = a_videos
    /\ a_pc' = "returned"
    /\ UNCHANGED <<a_max, a_primary, a_json, a_videos, a_browser, p_vars, m_vars, s_vars,
                   t_vars, d_vars, r_vars, j_vars>>

ApiNext ==
    StartPlaywright \/ LaunchBrowser \/ NewContext \/ ApplyStealthScripts
    \/ DiscoverElements \/ ParseElements \/ MergeAndLimit \/ SimulateHumanBehavior
    \/ BrowserClose \/ PlaywrightStop

SpecApi == ApiInit /\ [][ApiNext]_vars

\* The backup was merged into the parsed videos.
BackupMerged ==
    /\ a_pc \in {"parsed", "close", "stop", "returned"}
    /\ a_videos # <<>>
    /\ Len(a_primary) * 2 < a_max
    /\ a_json # <<>>

\* C12: when get_videos_for_tag merges the backup collection into the
\* primary one, the primary videos keep their positions and contents, and
\* a backup video is appended only if its url was not seen before, in the
\* primary collection or earlier in the backup; below the limit every
\* backup url is in the result, and the appended videos follow the
\* backup's order.
C12_MergeFirstSeenWins ==
    BackupMerged =>
        /\ SubSeq(a_videos, 1, Len(a_primary)) = a_primary
        /\ \A i \in (Len(a_primary) + 1)..Len(a_videos) :
              /\ a_videos[i].source = "json"
              /\ a_json[a_videos[i].position] = a_videos[i]
              /\ \A k \in 1..(i - 1) :
                    /\ a_videos[k].url # a_videos[i].url
                    /\ a_videos[k].source = "json" =>
                          a_videos[k].position < a_videos[i].position
        /\ Len(a_videos) < a_max => UrlsOf(a_json) \subseteq UrlsOf(a_videos)

\* Merging [A, B] with [A, C], the same url on A, gave [A, B, C] with A
\* from the first collection.
C12_Witness ==
    /\ a_pc = "returned"
    /\ a_primary = <<[url |-> "u1", source |-> "element", position |-> 1],
                     [url |-> "u2", source |-> "element", position |-> 2]>>
    /\ a_json = <<[url |-> "u1", source |-> "json", position |-> 1],
                  [url |-> "u3", source |-> "json", position |-> 2]>>
    /\ a_returned = <<[url |-> "u1", source |-> "element", position |-> 1],
                      [url |-> "u2", source |-> "element", position |-> 2],
                      [url |-> "u3", source |-> "json", position |-> 2]>>

\* C22: get_videos_for_tag never raises to its caller: whatever step fails
\* (launch, page creation, discovery, parsing, merging, closing) the call
\* goes on to return a list, which is empty when the failure happened before
\* any video was parsed and which has at most max_videos elements.
C22_AlwaysReturnsBoundedList ==
    /\ a_pc # "returned" => ENABLED ApiNext
    /\ a_pc = "returned" =>
          /\ Len(a_returned) <= a_max
          /\ a_videos = <<>> => a_returned = <<>>
          /\ a_returned \in {<<>>, a_videos}

\* Discovery or page.content() raised after the launch, with elements that
\* would have given videos: the browser was closed and [] returned.
C22_Witness ==
    /\ a_pc = "returned"
    /\ a_browser = "closed"
    /\ a_primary # <<>>
    /\ a_videos = <<>>
    /\ a_returned = <<>>

\* C27: the list get_videos_for_tag returns never contains two videos with
\* the same url, whatever the primary and the backup collections contain: a
\* primary collection that repeats a url and a run without the backup merge
\* included.
C27_ReturnedUrlsDistinct ==
    a_pc = "returned" =>
        \A i, j \in DOMAIN a_returned :
            a_returned[i].url = a_returned[j].url => i = j

\* C29: every get_videos_for_tag call that started Playwright or launched a
\* browser has stopped Playwright and closed the browser when it returns,
\* on every path: when launch fails after Playwright was started and when
\* closing the browser raises included.
C29_BrowserReleasedAtReturn ==
    a_pc = "returned" =>
        /\ a_playwright \in {"none", "stopped"}
        /\ a_browser \in {"none", "closed"}

-----------------------------------------------------------------------------
(* The two computations of the performance score, on two statistics *)

\* View counts: none, a negative one, and the ones math_log10 covers.
ScoreViews == {-5, 0, 1, 5, 7, 9, 10, 12, 40, 300, 1200, 10000, 20000}

ScoreEngagements ==
    { [like_count |-> 0, comment_count |-> 0, share_count |-> 0],
      [like_count |-> 1000, comment_count |-> 200, share_count |-> 50],
      [like_count |-> 5, comment_count |-> 0, share_count |-> 0] }

ScoreInit ==
    /\ s_pc = "input"
    /\ s_stats \in {<<[view_count |-> v1] @@ e, [view_count |-> v2] @@ e>> :
                       v1 \in ScoreViews, v2 \in ScoreViews, e \in ScoreEngagements}
    /\ s_scores = <<>>
    /\ ParserIdle
    /\ MainIdle
    /\ ApiIdle
    /\ TextIdle
    /\ DiscoveryIdle
    /\ RunnerIdle
    /\ SetupIdle

\* calculate_engagement_metrics(stats) on each of the two statistics.
CalculateEngagementMetrics ==
    /\ s_pc = "input"
    /\ s_scores' = <<calculate_engagement_metrics(s_stats[1]).performance_score,
                     calculate_engagement_metrics(s_stats[2]).performance_score>>
    /\ s_pc' = "metrics"
    /\ UNCHANGED <<s_stats, p_vars, m_vars, a_vars, t_vars, d_vars, r_vars, j_vars>>

\* calculate_performance_score(video) on a video holding each of the two
\* statistics, which carry no performance_score yet.
CalculatePerformanceScore ==
    /\ s_pc = "input"
    /\ s_scores' = <<calculate_performance_score([statistics |-> s_stats[1]]),
                     calculate_performance_score([statistics |-> s_stats[2]])>>
    /\ s_pc' = "score"
    /\ UNCHANGED <<s_stats, p_vars, m_vars, a_vars, t_vars, d_vars, r_vars, j_vars>>

ScoreNext == CalculateEngagementMetrics \/ CalculatePerformanceScore

SpecScore == ScoreInit /\ [][ScoreNext]_vars

\* C16: with likes, comments and shares all 0 the performance score is
\* monotonically non-decreasing in views: v1 <= v2 (v1 = 0 included) gives
\* score(v1,0,0,0) <= score(v2,0,0,0), in calculate_engagement_metrics and
\* in calculate_performance_score.
C16_ScoreMonotonicInViews ==
    (/\ s_pc \in {"metrics", "score"}
     /\ s_stats[1].like_count = 0 /\ s_stats[1].comment_count = 0
     /\ s_stats[1].share_count = 0
     /\ s_stats[1].view_count <= s_stats[2].view_count)
    => s_scores[1] <= s_scores[2]

\* calculate_performance_score gave views 0 the score 0 and views 20000
\* the score 8.6.
C16_Witness ==
    /\ s_pc = "score"
    /\ s_stats[1] = [view_count |-> 0, like_count |-> 0, comment_count |-> 0,
                     share_count |-> 0]
    /\ s_stats[2].view_count = 20000
    /\ s_scores = <<0, 860>>

\* C25: the two score computations agree: for every statistics record
\* (view_count = 0 with likes, comments or shares included) the
\* performance_score calculate_engagement_metrics stores equals the value
\* calculate_performance_score computes from the same counts when no score
\* is stored yet.
C25_ScoreComputationsAgree ==
    s_pc = "metrics" =>
        \A i \in 1..2 :
            s_scores[i] = calculate_performance_score([statistics |-> s_stats[i]])

-----------------------------------------------------------------------------
(* Hashtag extraction from a description *)

MaxTokens == 3       \* most pieces a description is put together from

\* Pieces of descriptions: hashtags in both cases, a longer one, a blank,
\* a word character and a lone '#'.
TextTokens == {<<"#", "a">>, <<"#", "A">>, <<"#", "a", "b">>, <<" ">>, <<"x">>, <<"#">>}

RECURSIVE Concat(_)
Concat(tokens) ==
    IF tokens = <<>> THEN <<>> ELSE Head(tokens) \o Concat(Tail(tokens))

Descriptions == {Concat(ts) : ts \in SeqsUpTo(TextTokens, MaxTokens)}

\* tiktok_api.extract_hashtags_from_text
extract_hashtags_from_text(text) ==
    IF text = <<>> THEN <<>> ELSE FindAllHashtags(text, 1)

TextInit ==
    /\ t_pc = "input"
    /\ t_text \in Descriptions
    /\ t_hashtags = <<>>
    /\ ParserIdle
    /\ MainIdle
    /\ ApiIdle
    /\ ScoreIdle
    /\ DiscoveryIdle
    /\ RunnerIdle
    /\ SetupIdle

\* video['hashtags'] = extract_hashtags(description)
ExtractHashtags ==
    /\ t_pc = "input"
    /\ t_hashtags' \in extract_hashtags(t_text)
    /\ t_pc' = "hashtags"
    /\ UNCHANGED <<t_text, p_vars, m_vars, a_vars, s_vars, d_vars, r_vars, j_vars>>

\* hashtags = extract_hashtags_from_text(description)
ExtractHashtagsFromText ==
    /\ t_pc = "input"
    /\ t_hashtags' = extract_hashtags_from_text(t_text)
    /\ t_pc' = "hashtags_from_text"
    /\ UNCHANGED <<t_text, p_vars, m_vars, a_vars, s_vars, d_vars, r_vars, j_vars>>

TextNext == ExtractHashtags \/ ExtractHashtagsFromText

SpecText == TextInit /\ [][TextNext]_vars

\* C18: the hashtags extracted from a description are a duplicate-free
\* collection of its '#word' tokens with their case kept, in
\* video_parser.extract_hashtags and in tiktok_api.extract_hashtags_from_text:
\* a description that repeats a hashtag yields that hashtag once.
C18_HashtagsDuplicateFree ==
    t_pc \in {"hashtags", "hashtags_from_text"} =>
        /\ \A i, j \in DOMAIN t_hashtags : i # j => t_hashtags[i] # t_hashtags[j]
        /\ Elements(t_hashtags) = Elements(FindAllHashtags(t_text, 1))

-----------------------------------------------------------------------------
(* ContentDiscovery.execute_best_approach: one call *)

MaxFound == 2        \* most elements one approach returns

ApproachNames == {"search", "hashtag", "user_profile", "explore"}

MaxVideosArguments == {1, 2, 4}

\* random.shuffle(approaches): the orders it can leave the list in.
Shuffled(names) ==
    {order \in [1..Cardinality(names) -> names] :
        \A i, j \in DOMAIN order : i # j => order[i] # order[j]}

\* The list approach_func(max_videos) returns: its elements, told apart by
\* the approach and their position.
ApproachResults(approach_name, found) ==
    [k \in 1..found[approach_name] |-> <<approach_name, k>>]

\* `if approach_results and len(approach_results) > len(results)`
IsBetter(approach_results, best) ==
    approach_results # <<>> /\ Len(approach_results) > Len(best)

\* `if len(results) >= max_videos / 2: break`, for results just replaced.
StopsTrying(approach_results, best, max_videos) ==
    IsBetter(approach_results, best) /\ Len(approach_results) * 2 >= max_videos

DiscoveryInit ==
    /\ d_pc = "start"
    /\ d_max_videos \in MaxVideosArguments
    /\ d_found \in [ApproachNames -> 0..MaxFound]
    /\ approaches = <<>>
    /\ d_i = 0
    /\ results = <<>>
    /\ best_approach_name = "None"
    /\ ParserIdle
    /\ MainIdle
    /\ ApiIdle
    /\ ScoreIdle
    /\ TextIdle
    /\ RunnerIdle
    /\ SetupIdle

ShuffleApproaches ==
    /\ d_pc = "start"
    /\ approaches' \in Shuffled(ApproachNames)
    /\ d_pc' = "loop"
    /\ UNCHANGED <<d_max_videos, d_found, d_i, results, best_approach_name,
                   p_vars, m_vars, a_vars, s_vars, t_vars, r_vars, j_vars>>

\* The results and the name the loop body leaves for one approach.
KeepBetter(approach_name, approach_results) ==
    /\ results' = (IF IsBetter(approach_results, results) THEN approach_results
                   ELSE results)
    /\ best_approach_name' = (IF IsBetter(approach_results, results) THEN approach_name
                              ELSE best_approach_name)
    /\ d_pc' = (IF StopsTrying(approach_results, results, d_max_videos) \/ d_i + 1 = Len(approaches)
                THEN "return" ELSE "loop")

\* One turn of `for approach_name, approach_func in approaches`.
TryApproach ==
    /\ d_pc = "loop"
    /\ KeepBetter(approaches[d_i + 1], ApproachResults(approaches[d_i + 1], d_found))
    /\ d_i' = d_i + 1
    /\ UNCHANGED <<d_max_videos, d_found, approaches, p_vars, m_vars, a_vars, s_vars, t_vars, r_vars, j_vars>>

\* return results
ReturnResults ==
    /\ d_pc = "return"
    /\ d_pc' = "returned"
    /\ UNCHANGED <<d_max_videos, d_found, approaches, d_i, results, best_approach_name,
                   p_vars, m_vars, a_vars, s_vars, t_vars, r_vars, j_vars>>

DiscoveryNext == ShuffleApproaches \/ TryApproach \/ ReturnResults

SpecDiscovery == DiscoveryInit /\ [][DiscoveryNext]_vars

\* C21: execute_best_approach returns the results of the approach that
\* yields the most results among search, hashtag, user_profile and explore,
\* whatever the shuffled order: no approach would have returned a longer
\* list than the one returned.
C21_ReturnsLongestResults ==
    d_pc = "returned" =>
        \A name \in ApproachNames : d_found[name] <= Len(results)

-----------------------------------------------------------------------------
(* utils.scheduler.run_scraper and the counter running_instances *)

SCHEDULER_MAX_INSTANCES == 1

MaxRuns == 2         \* most calls of run_scraper one caller makes

Callers == {1, 2}

\* What one call has done so far.
NewCall == [incremented |-> 0, decremented |-> 0, started |-> FALSE]

\* The scheduler loop calls run_scraper from its one thread, each call
\* returning before the next; with a second caller the calls overlap.
RunnerInit ==
    /\ running_instances = 0
    /\ r_callers \in {{1}, Callers}
    /\ r_pc = [t \in Callers |-> "idle"]
    /\ r_reg = [t \in Callers |-> 0]
    /\ r_call = [t \in Callers |-> NewCall]
    /\ r_runs = [t \in Callers |-> 0]
    /\ r_history = <<>>
    /\ ParserIdle
    /\ MainIdle
    /\ ApiIdle
    /\ ScoreIdle
    /\ TextIdle
    /\ DiscoveryIdle
    /\ SetupIdle

others == <<p_vars, m_vars, a_vars, s_vars, t_vars, d_vars, j_vars>>

\* run_scraper() is called.
CallRunScraper(t) ==
    /\ t \in r_callers
    /\ r_pc[t] = "idle"
    /\ r_runs[t] < MaxRuns
    /\ r_pc' = [r_pc EXCEPT ![t] = "check"]
    /\ r_call' = [r_call EXCEPT ![t] = NewCall]
    /\ r_runs' = [r_runs EXCEPT ![t] = @ + 1]
    /\ UNCHANGED <<running_instances, r_callers, r_reg, r_history, others>>

\* if running_instances >= SCHEDULER_MAX_INSTANCES: log and return
CheckInstances(t) ==
    /\ r_pc[t] = "check"
    /\ r_pc' = [r_pc EXCEPT ![t] = IF running_instances >= SCHEDULER_MAX_INSTANCES
                                   THEN "skipped" ELSE "increment"]
    /\ UNCHANGED <<running_instances, r_callers, r_reg, r_call, r_runs, r_history, others>>

\* running_instances += 1 and running_instances -= 1: the load of the global
LoadInstances(t) ==
    /\ r_pc[t] \in {"increment", "finally"}
    /\ r_reg' = [r_reg EXCEPT ![t] = running_instances]
    /\ r_pc' = [r_pc EXCEPT ![t] = IF r_pc[t] = "increment" THEN "store_increment"
                                   ELSE "store_decrement"]
    /\ UNCHANGED <<running_instances, r_callers, r_call, r_runs, r_history, others>>

\* running_instances += 1: the store
StoreIncrement(t) ==
    /\ r_pc[t] = "store_increment"
    /\ running_instances' = r_reg[t] + 1
    /\ r_call' = [r_call EXCEPT ![t].incremented = @ + 1]
    /\ r_pc' = [r_pc EXCEPT ![t] = "popen"]
    /\ UNCHANGED <<r_callers, r_reg, r_runs, r_history, others>>

\* A variant of the exits of the try block in which an exception returns
\* from the except clause (the decrement at the end of the try block
\* instead of in a finally clause).
AfterTryWithoutFinally(outcome) == IF outcome = "raised" THEN "returned" ELSE "finally"

\* try: ... except Exception: ... finally: every exit of the try block
\* goes through the finally clause.
AfterTry(outcome) == "finally"

\* subprocess.Popen(...): the subprocess starts, or Popen raises.
StartSubprocess(t) ==
    /\ r_pc[t] = "popen"
    /\ \/ /\ r_call' = [r_call EXCEPT ![t].started = TRUE]
          /\ r_pc' = [r_pc EXCEPT ![t] = "communicate"]
          /\ UNCHANGED r_history
       \/ /\ r_pc' = [r_pc EXCEPT ![t] = AfterTry("raised")]
          /\ r_history' = Append(r_history, "raised")
          /\ UNCHANGED r_call
    /\ UNCHANGED <<running_instances, r_callers, r_reg, r_runs, others>>

\* process.communicate() and the logging of the return code.
Communicate(t) ==
    /\ r_pc[t] = "communicate"
    /\ \E outcome \in {"exit_0", "exit_nonzero", "raised"} :
          /\ r_pc' = [r_pc EXCEPT ![t] = AfterTry(outcome)]
          /\ r_history' = Append(r_history, outcome)
    /\ UNCHANGED <<running_instances, r_callers, r_reg, r_call, r_runs, others>>

\* A variant of the store of the finally clause with the sign of the
\* increment (`+= 1` written for `-= 1`).
StoreDecrementAdding(t) ==
    /\ r_pc[t] = "store_decrement"
    /\ running_instances' = r_reg[t] + 1
    /\ r_call' = [r_call EXCEPT ![t].decremented = @ + 1]
    /\ r_pc' = [r_pc EXCEPT ![t] = "returned"]
    /\ UNCHANGED <<r_callers, r_reg, r_runs, r_history, others>>

\* running_instances -= 1: the store, and the return
StoreDecrement(t) ==
    /\ r_pc[t] = "store_decrement"
    /\ running_instances' = r_reg[t] - 1
    /\ r_call' = [r_call EXCEPT ![t].decremented = @ + 1]
    /\ r_pc' = [r_pc EXCEPT ![t] = "returned"]
    /\ UNCHANGED <<r_callers, r_reg, r_runs, r_history, others>>

\* The call has returned; the caller may call again.
ReturnFromRun(t) ==
    /\ r_pc[t] \in {"returned", "skipped"}
    /\ r_pc' = [r_pc EXCEPT ![t] = "idle"]
    /\ UNCHANGED <<running_instances, r_callers, r_reg, r_call, r_runs, r_history, others>>

RunnerNext ==
    \E t \in Callers :
        \/ CallRunScraper(t)
        \/ CheckInstances(t)
        \/ LoadInstances(t)
        \/ StoreIncrement(t)
        \/ StartSubprocess(t)
        \/ Communicate(t)
        \/ StoreDecrement(t)
        \/ ReturnFromRun(t)

SpecRunner == RunnerInit /\ [][RunnerNext]_vars
C23_Witness ==
    /\ r_callers = {1}
    /\ r_history = <<"exit_nonzero">>
    /\ r_runs[1] = 2
    /\ r_pc[1] = "communicate"
    /\ r_call[1].started
    /\ running_instances = SCHEDULER_MAX_INSTANCES

\* No call of run_scraper is in progress.
NoRunInProgress == \A t \in Callers : r_pc[t] = "idle"

\* C24: every run_scraper call that incremented running_instances
\* decrements it exactly once before it returns, whether the subprocess
\* succeeds, exits non-zero or raises while being started; so in the
\* scheduler's sequence of runs running_instances is 0 whenever no run is in
\* progress and no run is skipped because of an earlier failed run.
C24_DecrementedOnEveryPath ==
    /\ \A t \in Callers :
          /\ r_pc[t] \in {"returned", "idle"} =>
                r_call[t].decremented = r_call[t].incremented
          /\ r_call[t].decremented <= r_call[t].incremented
    /\ r_callers = {1} =>
          /\ NoRunInProgress => running_instances = 0
          /\ r_pc[1] # "skipped"

\* The scheduler's first run raised while starting the subprocess; its
\* second run was not skipped and has a subprocess running.
C24_Witness ==
    /\ r_callers = {1}
    /\ r_history = <<"raised">>
    /\ r_runs[1] = 2
    /\ r_pc[1] = "communicate"
    /\ r_call[1].started
    /\ running_instances = 1

-----------------------------------------------------------------------------
(* utils.scheduler.setup_schedule and run_scheduler *)

SCHEDULE_HOUR == 3
SCHEDULE_MINUTE == 0

ScheduleIntervals == {"hourly", "daily", "weekly", "custom", "monthly"}

\* The names the chain of setup_schedule compares a day with.
monday == <<"m", "o", "n", "d", "a", "y">>
tuesday == <<"t", "u", "e", "s", "d", "a", "y">>
wednesday == <<"w", "e", "d", "n", "e", "s", "d", "a", "y">>
thursday == <<"t", "h", "u", "r", "s", "d", "a", "y">>
friday == <<"f", "r", "i", "d", "a", "y">>
saturday == <<"s", "a", "t", "u", "r", "d", "a", "y">>
sunday == <<"s", "u", "n", "d", "a", "y">>
Weekdays == {monday, tuesday, wednesday, thursday, friday, saturday, sunday}

\* Settings of SCHEDULE_DAYS: lists of strings, each a sequence of characters.
ScheduleDays ==
    { <<>>, <<monday, wednesday, friday>>,
      <<<<"S", "u", "n", "d", "a", "y">>>>,
      <<<<"M", "o", "n", "d", "a", "y">>>>,
      <<<<"S", "U", "N", "D", "A", "Y">>, <<"f", "r", "I", "d", "a", "y">>>>,
      <<<<"f", "u", "n", "d", "a", "y">>>>,
      <<<<"f", "u", "n", "d", "a", "y">>, tuesday>>,
      <<<<"m", "o", "n", "d", "a", "y", " ">>>> }

\* Settings of CUSTOM_SCHEDULE: "0 */12 * * *", "0 */x * * *", "0 */",
\* "30 2 * * *", "0 */12<tab>* * *", "0 */6<newline>", "0 */ 5", "0<tab>*/12",
\* "0 */<U+001F>12", "0 */+4<U+00A0>*" and " 0 */12".
CustomSchedules ==
    { <<"0", " ", "*", "/", "1", "2", " ", "*", " ", "*", " ", "*">>,
      <<"0", " ", "*", "/", "x", " ", "*", " ", "*", " ", "*">>,
      <<"0", " ", "*", "/">>,
      <<"3", "0", " ", "2", " ", "*", " ", "*", " ", "*">>,
      <<"0", " ", "*", "/", "1", "2", "\t", "*", " ", "*", " ", "*">>,
      <<"0", " ", "*", "/", "6", "\n">>,
      <<"0", " ", "*", "/", " ", "5">>,
      <<"0", "\t", "*", "/", "1", "2">>,
      <<"0", " ", "*", "/", "", "1", "2">>,
      <<"0", " ", "*", "/", "+", "4", " ", "*">>,
      <<" ", "0", " ", "*", "/", "1", "2">> }

SchedulerConfigs ==
    [SCHEDULER_ENABLED : BOOLEAN, SCHEDULE_INTERVAL : ScheduleIntervals,
     SCHEDULE_DAYS : ScheduleDays, CUSTOM_SCHEDULE : CustomSchedules]

\* str.split() without an argument: the fields are the runs of characters
\* that are not whitespace.  A field starts where such a character stands
\* first or behind a whitespace character.
FieldStarts(s) ==
    {i \in 1..Len(s) : s[i] \notin Whitespace /\ (i = 1 \/ s[i - 1] \in Whitespace)}

\* The last position of the field that starts at i.
FieldEnd(s, i) ==
    CHOOSE j \in i..Len(s) :
        /\ \A k \in i..j : s[k] \notin Whitespace
        /\ j = Len(s) \/ s[j + 1] \in Whitespace

\* s.split()
SplitFields(s) ==
    [n \in 1..Cardinality(FieldStarts(s)) |->
        SubSeq(s, NthOf(FieldStarts(s), n), FieldEnd(s, NthOf(FieldStarts(s), n)))]

\* day = day.lower()
DayLower(day) == Lower(day)

DailyAt(hour, minute) == [every |-> 1, unit |-> "day", at |-> <<hour, minute>>]

\* The chain `if day == 'monday': ... elif day == 'sunday': ...` for one day.
WeekdayJob(day) ==
    IF day \in Weekdays
    THEN <<[every |-> 1, unit |-> day, at |-> <<SCHEDULE_HOUR, SCHEDULE_MINUTE>>]>>
    ELSE <<>>

\* for day in SCHEDULE_DAYS
RECURSIVE WeeklyJobs(_)
WeeklyJobs(days) ==
    IF days = <<>> THEN <<>>
    ELSE WeekdayJob(DayLower(Head(days))) \o WeeklyJobs(Tail(days))

\* try: hours = int(parts[1][2:]); schedule.every(hours).hours.do(...)
\* except (ValueError, IndexError): the daily 03:00 job
EveryHoursJob(hours) ==
    IF hours.raised THEN <<DailyAt(3, 0)>>
    ELSE <<[every |-> hours.value, unit |-> "hours", at |-> <<>>]>>

EveryHoursFrom(parts) ==
    IF Len(parts) >= 2 /\ HasAt(parts[2], 1, <<"*", "/">>)
    THEN EveryHoursJob(int(StrV(SubSeq(parts[2], 3, Len(parts[2])))))
    ELSE <<>>

\* The branch SCHEDULE_INTERVAL == 'custom'
CustomJobs(custom) ==
    IF HasAt(custom, 1, <<"0", " ", "*", "/">>)
    THEN EveryHoursFrom(SplitFields(custom))
    ELSE <<DailyAt(3, 0)>>

\* The jobs setup_schedule registers, in order.
setup_schedule(config) ==
    IF ~config.SCHEDULER_ENABLED THEN <<>>
    ELSE CASE config.SCHEDULE_INTERVAL = "hourly" ->
                  <<[every |-> 1, unit |-> "hour", at |-> <<SCHEDULE_MINUTE>>]>>
           [] config.SCHEDULE_INTERVAL = "daily" ->
                  <<DailyAt(SCHEDULE_HOUR, SCHEDULE_MINUTE)>>
           [] config.SCHEDULE_INTERVAL = "weekly" -> WeeklyJobs(config.SCHEDULE_DAYS)
           [] config.SCHEDULE_INTERVAL = "custom" -> CustomJobs(config.CUSTOM_SCHEDULE)
           [] OTHER -> <<DailyAt(3, 0)>>

SetupInit ==
    /\ j_pc = "start"
    /\ j_config \in SchedulerConfigs
    /\ jobs = <<>>
    /\ ParserIdle
    /\ MainIdle
    /\ ApiIdle
    /\ ScoreIdle
    /\ TextIdle
    /\ DiscoveryIdle
    /\ RunnerIdle

\* run_scheduler: `if not SCHEDULER_ENABLED: return`, else on to
\* setup_schedule().
RunScheduler ==
    /\ j_pc = "start"
    /\ j_pc' = (IF j_config.SCHEDULER_ENABLED THEN "setup" ELSE "exited")
    /\ UNCHANGED <<j_config, jobs, p_vars, m_vars, a_vars, s_vars, t_vars, d_vars, r_vars>>

\* setup_schedule(), called by run_scheduler (which then enters its loop)
\* or on its own.
SetupSchedule ==
    /\ j_pc \in {"start", "setup"}
    /\ jobs' = jobs \o setup_schedule(j_config)
    /\ j_pc' = (IF j_pc = "setup" THEN "looping" ELSE "scheduled")
    /\ UNCHANGED <<j_config, p_vars, m_vars, a_vars, s_vars, t_vars, d_vars, r_vars>>

SetupNext == RunScheduler \/ SetupSchedule

SpecSetup == SetupInit /\ [][SetupNext]_vars

\* C30: whenever SCHEDULER_ENABLED is true, setup_schedule registers at
\* least one run_scraper job for every value of SCHEDULE_INTERVAL,
\* SCHEDULE_DAYS and CUSTOM_SCHEDULE, so the scheduler loop never runs with
\* nothing scheduled; when SCHEDULER_ENABLED is false it registers none.
C30_AlwaysSomethingScheduled ==
    j_pc \in {"scheduled", "looping"} =>
        IF j_config.SCHEDULER_ENABLED THEN jobs # <<>> ELSE jobs = <<>>

====
